---- MODULE Spec2Model ----
(***************************************************************************)
(* Model of the OSGOP parser (app/services/parser.py): the segment         *)
(* detector, parse_with_segments and the registry enrichment, together     *)
(* with the callers that share one OSGOPParser instance between documents. *)
(*                                                                         *)
(* Page texts.  The code looks at a page only through re.search with a     *)
(* fixed set of patterns, so a normalized page text is represented by what *)
(* those patterns find in it:                                              *)
(*   polis : "full"  the text contains the whole Policy heading            *)
(*                   (POLIS OBYAZATELNOGO STRAKHOVANIYA GRAZHDANSKOY       *)
(*                   OTVETSTVENNOSTI PEREVOZCHIKA),                        *)
(*           "short" it contains only the first three words of it          *)
(*                   (POLIS OBYAZATELNOGO STRAKHOVANIYA),                  *)
(*           "none"  neither;                                              *)
(*   sved  : likewise for the VehicleDisclosure heading (SVEDENIYA O       *)
(*           DOGOVORE ... / SVEDENIYA O DOGOVORE);                         *)
(*   body  : the other lexical items of the page in text order (a contract *)
(*           number, a labelled conclusion date, a plate).                 *)
(* The text of a Policy segment given to _parse_polis_header is likewise a *)
(* sequence of items: besides the above, unlabelled dates, from-to         *)
(* phrases, role labels, party names, tax ids, premiums and amounts.  Each *)
(* pattern of the code is modelled by the items it matches; all dates of   *)
(* the items are valid calendar dates.                                     *)
(* A text that matches a long heading pattern matches the short one too,   *)
(* because the short pattern is a prefix of the long one.                  *)
(*                                                                         *)
(* Where the code works on single characters the texts are finer: the      *)
(* plate normalizer, the plate search of _parse_svedeniya and the month    *)
(* argument of _normalize_date take sequences of characters (script,       *)
(* letter, case), and _normalize_page_text takes sequences of tokens       *)
(* (words of the restored phrases, digit runs, white space, punctuation).  *)
(* FileSaver.save_all (app/services/file_saver.py) is modelled by the pdf  *)
(* files it asks for.                                                      *)
(***************************************************************************)
EXTENDS Integers, Sequences, FiniteSets, TLC

VARIABLES
    op,        \* pure-function harness: the function under test
    arg,       \* pure-function harness: its argument
    out,       \* pure-function harness: its result; in SpecSave what save_all stored
    parser,    \* the OSGOPParser instance: element_api_client, contract_date_from_svedeniya
    mode,      \* how the caller issues its parse_with_segments calls
    doc,       \* per call: the page texts extract_text_safe yields for its pdf_bytes
    pc,        \* per call: position of the parse_with_segments coroutine
    frame,     \* per call: the local variables alive across the await of asyncio.gather
    ret        \* per call: the value returned by parse_with_segments

vars == <<op, arg, out, parser, mode, doc, pc, frame, ret>>

None == "None"

\* Bounds of the model.
MaxPages == 4       \* longest page list given to _detect_segments on its own
MaxDocPages == 3    \* longest document given to parse_with_segments
MaxItems == 5       \* longest Policy text given to _parse_polis_header on its own
MaxPlateLen == 2    \* longest string given to the plate normalizer
MaxGroups == 4      \* most character groups in a text given to _parse_svedeniya
MaxDay == 32        \* largest day number given to _normalize_date
MaxTokens == 4      \* longest raw page text given to _normalize_page_text

SeqsUpTo(S, n) == UNION {[1..k -> S] : k \in 0..n}

(***************************************************************************)
(* Segment detector                                                        *)
(***************************************************************************)
HeadingMatch == {"none", "short", "full"}

\* re.search(r'POLIS\s+OBYAZATELNOGO\s+STRAKHOVANIYA\s+GRAZHDANSKOY\s+OTVETSTVENNOSTI\s+PEREVOZCHIKA', page_text)
RePolisHeading_shortPattern(text) == text.polis # "none"
RePolisHeading(text) == text.polis = "full"

\* re.search(r'SVEDENIYA\s+O\s+DOGOVORE\s+OBYAZATELNOGO\s+...\s+PEREVOZCHIKA', page_text)
ReSvedHeading_shortPattern(text) == text.sved # "none"
ReSvedHeading(text) == text.sved = "full"

\* re.search(r'SVEDENIYA\s+O\s+DOGOVORE', next_page) or re.search(r'POLIS\s+OBYAZATELNOGO\s+STRAKHOVANIYA', next_page)
ReNextHeading_polisOnly(text) == text.polis # "none"
ReNextHeading(text) == text.sved # "none" \/ text.polis # "none"

\* The inner loop `while i < total_pages: ... break / i += 1`, entered with i
\* already advanced past the heading page; the value of i when it ends.
RECURSIVE ScanToHeading_inclusive(_, _)
ScanToHeading_inclusive(pages, i) ==
    IF i < Len(pages) /\ ~ReNextHeading(pages[i + 1])
    THEN ScanToHeading_inclusive(pages, i + 1)
    ELSE i + 1

RECURSIVE ScanToHeading(_, _)
ScanToHeading(pages, i) ==
    IF i < Len(pages) /\ ~ReNextHeading(pages[i + 1])
    THEN ScanToHeading(pages, i + 1)
    ELSE i

\* The outer loop `while i < total_pages` with the list built so far.
\* Page numbers are 0-based as in the code; pages[i + 1] is Python's pages[i].
RECURSIVE ScanPages_svedFirst(_, _, _)
ScanPages_svedFirst(pages, i, segments) ==
    IF ~(i < Len(pages)) THEN segments
    ELSE IF ReSvedHeading(pages[i + 1])
         THEN LET end == ScanToHeading(pages, i + 1)
              IN  ScanPages_svedFirst(pages, end, Append(segments, <<i, end, "SVEDENIYA">>))
    ELSE IF RePolisHeading(pages[i + 1])
         THEN LET end == ScanToHeading(pages, i + 1)
              IN  ScanPages_svedFirst(pages, end, Append(segments, <<i, end, "POLIS">>))
    ELSE ScanPages_svedFirst(pages, i + 1, segments)

RECURSIVE ScanPages(_, _, _)
ScanPages(pages, i, segments) ==
    IF ~(i < Len(pages)) THEN segments
    ELSE IF RePolisHeading(pages[i + 1])
         THEN LET end == ScanToHeading(pages, i + 1)
              IN  ScanPages(pages, end, Append(segments, <<i, end, "POLIS">>))
    ELSE IF ReSvedHeading(pages[i + 1])
         THEN LET end == ScanToHeading(pages, i + 1)
              IN  ScanPages(pages, end, Append(segments, <<i, end, "SVEDENIYA">>))
    ELSE ScanPages(pages, i + 1, segments)

DetectSegments(pages) == ScanPages(pages, 0, <<>>)

(***************************************************************************)
(* Lexical items of a page body                                            *)
(***************************************************************************)
\* "ROSX" followed by 8..20 digits (what re.search(r'ROSX\d{8,20}') finds).
ItemRosx == [kind |-> "rosx", val |-> "ROSX22576020266000"]

\* The prefix as written, in any letter case, immediately followed by a run
\* of digits (a sequence of one-digit strings); with no digit the prefix
\* stands alone, a space before whatever follows it.
RosxPrefixes == {"ROSX", "rosx", "Rosx"}
ItemRosxWritten(prefix, digits) == [kind |-> "rosx_written", prefix |-> prefix, digits |-> digits]

\* A run of n digits: 2, 3, ..., 9, 0, 1, ...
Digits(n) == [k \in 1..n |-> <<"0", "1", "2", "3", "4", "5", "6", "7", "8", "9">>[((k + 1) % 10) + 1]]

\* The phrase "Data zaklyucheniya dogovora: D month Y" with a valid date;
\* val is the date _normalize_date returns for it.
ItemDate(d) == [kind |-> "date", val |-> d]

\* A registration plate as the plate patterns match it in the upper-cased
\* text: Cyrillic letters of the plate alphabet (transliterated here).
ItemPlate(p) == [kind |-> "plate", val |-> p]

PlateA == "A225RN797"
PlateB == "V777OR77"
Plates == {PlateA, PlateB}

\* normalize_plate(to_cyr_full(p)) for the plates of the model: the Cyrillic
\* letters replaced by their Latin look-alikes (CYR_TO_LAT).
PlateLat(p) == CASE p = PlateA -> "A225PH797"
                 [] p = PlateB -> "B777OP77"

\* The registry's record of a plate (Element API, /hs/Car/v1/Get).
VinOf(p)  == CASE p = PlateA -> "XTA00000000000225"
               [] p = PlateB -> "XTA00000000000777"
CodeOf(p) == CASE p = PlateA -> "code-225"
               [] p = PlateB -> "code-777"

\* The written form "D month Y" that _normalize_date turns into the date d:
\* day without a leading zero, genitive month name, four-digit year.
DateWritten(d) ==
    CASE d = "2025-01-15" -> [day |-> "15", month |-> "yanvarya", year |-> "2025"]
      [] d = "2025-02-20" -> [day |-> "20", month |-> "fevralya", year |-> "2025"]
      [] d = "2024-10-30" -> [day |-> "30", month |-> "oktyabrya", year |-> "2024"]
      [] d = "2025-10-28" -> [day |-> "28", month |-> "oktyabrya", year |-> "2025"]
      [] d = "2025-10-29" -> [day |-> "29", month |-> "oktyabrya", year |-> "2025"]
      [] d = "2025-10-30" -> [day |-> "30", month |-> "oktyabrya", year |-> "2025"]
      [] d = "2026-10-29" -> [day |-> "29", month |-> "oktyabrya", year |-> "2026"]
      [] d = "2025-11-15" -> [day |-> "15", month |-> "noyabrya", year |-> "2025"]
      [] d = "2025-12-01" -> [day |-> "1", month |-> "dekabrya", year |-> "2025"]

DateText(d) ==
    DateWritten(d).day \o " " \o DateWritten(d).month \o " " \o DateWritten(d).year

\* An unlabelled date "D month Y".
ItemPlainDate(d) == [kind |-> "pdate", val |-> d]

\* A from-to phrase, val its first and `to` its second date, in the form
\*   "plain"              s D M Y po D M Y
\*   "labelled"           Srok strakhovaniya: s D M Y po D M Y
\*   "year_mark"          s D M Y goda po D M Y goda
\*   "labelled_year_mark" Srok strakhovaniya: s D M Y goda po D M Y goda
PeriodForms == {"plain", "labelled", "year_mark", "labelled_year_mark"}
ItemPeriod(form, from, to) == [kind |-> "period", form |-> form, val |-> from, to |-> to]

\* The role labels "Strakhovshchik" (insurer) and "Strakhovatel" (insured).
ItemLabel(role) == [kind |-> "label", val |-> role]

\* A party name; the second one holds the letters I and N of the Cyrillic
\* alphabet (Ingosstrakh), the first one holds neither (Rosgosstrakh).
NameRosgosstrakh == "PAO SK Rosgosstrakh"
NameIngosstrakh == "SPAO Ingosstrakh"
ItemName(n) == [kind |-> "name", val |-> n]

\* "INN 7707067683", or "INN: 7705042179" when sep is ":"; 10 or 12 digits.
ItemInn(digits, sep) == [kind |-> "inn", val |-> digits, sep |-> sep]
TenDigitNumbers == {"7707067683", "5001234567", "7705042179", "7721751172"}

\* A number of ten digits standing alone, without the word INN.
ItemNum(digits) == [kind |-> "num", val |-> digits]

\* A premium label followed by an amount, and an amount followed by "rub".
\* `written` is the amount as written: digit groups, " " and ",".
\*   "itogo"       Itogo strakhovaya premiya: 1 234,56
\*   "strakhovaya" Strakhovaya premiya: 2 000,50
\*   "premiya"     Premiya: 500
ItemPremium(label, written) == [kind |-> "premium", label |-> label, written |-> written]
ItemAmount(written) == [kind |-> "amount", written |-> written]

\* Whether the written form of an item holds a Cyrillic letter I or N, in
\* either case: the characters the class [^INN] of lines 263 and 293 excludes.
MonthsWithIN == {"yanvarya", "iyunya", "iyulya", "sentyabrya", "noyabrya"}

HasIN(item) ==
    CASE item.kind = "label"   -> item.val = "insurer"
      [] item.kind = "name"    -> item.val = NameIngosstrakh
      [] item.kind = "plate"   -> item.val = PlateA
      [] item.kind = "date"    -> TRUE
      [] item.kind = "pdate"   -> DateWritten(item.val).month \in MonthsWithIN
      [] item.kind = "period"  ->
            \/ item.form \in {"labelled", "labelled_year_mark"}
            \/ DateWritten(item.val).month \in MonthsWithIN
            \/ DateWritten(item.to).month \in MonthsWithIN
      [] item.kind = "premium" -> TRUE
      [] item.kind = "inn"     -> TRUE
      [] OTHER                 -> FALSE

\* A plate as _restore_spaces leaves it in the normalized text: a space
\* between a letter and a group of three or more digits.
PlateSpaced(p) == CASE p = PlateA -> "A 225 RN 797"
                    [] p = PlateB -> "V 777 OR77"

\* "".join(pieces), and " ".join(pieces)
RECURSIVE Concat(_)
Concat(pieces) == IF pieces = <<>> THEN "" ELSE Head(pieces) \o Concat(Tail(pieces))

RECURSIVE JoinSpaced(_)
JoinSpaced(pieces) ==
    IF pieces = <<>> THEN ""
    ELSE IF Len(pieces) = 1 THEN pieces[1]
    ELSE Head(pieces) \o " " \o JoinSpaced(Tail(pieces))

\* The written form of an item in the normalized text.
ItemText(item) ==
    CASE item.kind = "rosx"   -> item.val
      [] item.kind = "rosx_written" -> item.prefix \o Concat(item.digits)
      [] item.kind = "date"   -> "Data zaklyucheniya dogovora: " \o DateText(item.val)
      [] item.kind = "pdate"  -> DateText(item.val)
      [] item.kind = "period" ->
            (IF item.form \in {"labelled", "labelled_year_mark"}
             THEN "Srok strakhovaniya: s " ELSE "s ")
            \o DateText(item.val)
            \o (IF item.form \in {"year_mark", "labelled_year_mark"} THEN " goda po " ELSE " po ")
            \o DateText(item.to)
            \o (IF item.form \in {"year_mark", "labelled_year_mark"} THEN " goda" ELSE "")
      [] item.kind = "plate"  -> PlateSpaced(item.val)
      [] item.kind = "label"  -> IF item.val = "insurer" THEN "Strakhovshchik" ELSE "Strakhovatel"
      [] item.kind = "name"   -> item.val
      [] item.kind = "inn"    -> "INN" \o item.sep \o " " \o item.val
      [] item.kind = "num"    -> item.val
      [] item.kind = "amount" -> Concat(item.written) \o " rub"
      [] item.kind = "premium" ->
            (CASE item.label = "itogo"       -> "Itogo strakhovaya premiya: "
               [] item.label = "strakhovaya" -> "Strakhovaya premiya: "
               [] item.label = "premiya"     -> "Premiya: ")
            \o Concat(item.written)

\* Positions of the items of one kind, and the first such item's value
\* (re.search returns the leftmost match), None when there is none.
Positions(text, kind) == {k \in 1..Len(text) : text[k].kind = kind}

FirstOf(text, kind) ==
    LET ps == Positions(text, kind)
    IN  IF ps = {} THEN None
        ELSE text[CHOOSE k \in ps : \A j \in ps : k <= j].val

\* "\n".join(normalized_pages[start:end]): the items of the pages start..end-1.
RECURSIVE JoinPages(_, _, _)
JoinPages(pages, start, end) ==
    IF start >= end \/ start >= Len(pages) THEN <<>>
    ELSE pages[start + 1].body \o JoinPages(pages, start + 1, end)

(***************************************************************************)
(* Header and disclosure extraction, as far as the items reach             *)
(***************************************************************************)
\* The least of a set of positions, 0 when it is empty (re.search returns
\* the leftmost match).
FirstPos(ps) == IF ps = {} THEN 0 ELSE CHOOSE k \in ps : \A j \in ps : k <= j

\* re.findall of the generic date pattern, normalized, None results dropped:
\* every date of the text in text order, whatever phrase it stands in.
AllDates(text) ==
    LET f[k \in 0..Len(text)] ==
            IF k = 0 THEN <<>>
            ELSE IF text[k].kind \in {"date", "pdate"} THEN Append(f[k - 1], text[k].val)
            ELSE IF text[k].kind = "period" THEN f[k - 1] \o <<text[k].val, text[k].to>>
            ELSE f[k - 1]
    IN  f[Len(text)]

\* Step 1 of _extract_dates_from_polis, the three period_patterns in order:
\* the first needs the label and "po" right after the year (an optional
\* letter g, no word "goda"); the second is the same without the label; the
\* third needs the label "Srok strakhovaniya" and lets anything stand
\* between the first date and "po".  <<>> when none matches, else the pair.
PeriodOf(text) ==
    LET p1 == FirstPos({m \in 1..Len(text) : text[m].kind = "period" /\ text[m].form = "labelled"})
        p2 == FirstPos({m \in 1..Len(text) : text[m].kind = "period" /\ text[m].form \in {"plain", "labelled"}})
        p3 == FirstPos({m \in 1..Len(text) : text[m].kind = "period" /\ text[m].form \in {"labelled", "labelled_year_mark"}})
        k  == IF p1 # 0 THEN p1 ELSE IF p2 # 0 THEN p2 ELSE p3
    IN  IF k = 0 THEN <<>> ELSE <<text[k].val, text[k].to>>

\* Steps 2 and 3 for contract_date: the labelled date when contract_patterns
\* found one, else the first date of the scan.
ContractDateOf_firstScanned(labelled, dates) ==
    IF Len(dates) >= 1 THEN dates[1] ELSE None

ContractDateOf(labelled, dates) ==
    IF labelled # None THEN labelled
    ELSE IF Len(dates) >= 1 THEN dates[1] ELSE None

\* _extract_dates_from_polis.  Step 3 runs unless all three fields are set;
\* it fills period_from and period_to with the first and second date of
\* the scan.
ExtractDatesFromPolis(text) ==
    LET period   == PeriodOf(text)
        labelled == FirstOf(text, "date")
        dates    == IF labelled # None /\ period # <<>> THEN <<>> ELSE AllDates(text)
    IN  [contract_date |-> ContractDateOf(labelled, dates),
         period_from   |-> IF period # <<>> THEN period[1]
                           ELSE IF Len(dates) >= 2 THEN dates[1] ELSE None,
         period_to     |-> IF period # <<>> THEN period[2]
                           ELSE IF Len(dates) >= 2 THEN dates[2] ELSE None]

IsLabel(item, role) == item.kind = "label" /\ item.val = role

\* Lines 243-260 and 274-290: the text from the first role label up to the
\* next stop word (Strakhovatel for the insurer, Strakhovaya for the
\* insured, and for both Itogo, Premiya, Srok, INN) or the end of the text.
\* A stop word may stand inside an item: "Strakhovaya premiya" stops the
\* insurer's capture only at its second word.  The cleaning steps find
\* nothing to remove in the written forms of the items, and every written
\* form is longer than two characters.
StopsSection(item, role) ==
    \/ item.kind \in {"inn", "premium"}
    \/ item.kind = "period" /\ item.form \in {"labelled", "labelled_year_mark"}
    \/ role = "insurer" /\ IsLabel(item, "insured")

PrefixBeforeStop(item, role) ==
    IF role = "insurer" /\ item.kind = "premium" /\ item.label = "strakhovaya"
    THEN <<"Strakhovaya">> ELSE <<>>

PartyName(text, role) ==
    LET l == FirstPos({m \in 1..Len(text) : IsLabel(text[m], role)})
        stop == FirstPos({m \in l + 1..Len(text) : StopsSection(text[m], role)})
        last == IF stop = 0 THEN Len(text) ELSE stop - 1
        captured == [k \in 1..last - l |-> ItemText(text[l + k])]
                    \o (IF stop = 0 THEN <<>> ELSE PrefixBeforeStop(text[stop], role))
    IN  IF l = 0 \/ captured = <<>> THEN None ELSE JoinSpaced(captured)

\* Lines 263 and 293, re.search(r'<label>[^INN]*INN[:\s/]*(\d{10,12})'): the
\* leftmost role label after which the first item holding a letter I or N
\* is an INN item; that item's digits.  None when there is none.
InnAfterLabel(text, role) ==
    LET hit(k) == LET j == FirstPos({m \in k + 1..Len(text) : HasIN(text[m])})
                  IN  j # 0 /\ text[j].kind = "inn"
        ls == {k \in 1..Len(text) : IsLabel(text[k], role) /\ hit(k)}
        l  == CHOOSE k \in ls : \A j \in ls : k <= j
    IN  IF ls = {} THEN None ELSE text[FirstPos({m \in l + 1..Len(text) : HasIN(text[m])})].val

\* \b(\d{10})\b : a number of exactly ten digits between word boundaries.
TenDigit(item) == item.kind \in {"inn", "num"} /\ item.val \in TenDigitNumbers

\* r'\b(\d{10})\b.*?<label>' and r'<label>.*?\b(\d{10})\b'
TenBeforeLabel(text, role) ==
    LET k == FirstPos({m \in 1..Len(text) : TenDigit(text[m])})
    IN  IF k # 0 /\ FirstPos({m \in k + 1..Len(text) : IsLabel(text[m], role)}) # 0
        THEN text[k].val ELSE None

TenAfterLabel(text, role) ==
    LET l == FirstPos({m \in 1..Len(text) : IsLabel(text[m], role)})
        k == FirstPos({m \in l + 1..Len(text) : TenDigit(text[m])})
    IN  IF l # 0 /\ k # 0 THEN text[k].val ELSE None

\* The first of the candidates that is not None.
RECURSIVE FirstFound(_)
FirstFound(candidates) ==
    IF candidates = <<>> THEN None
    ELSE IF Head(candidates) # None THEN Head(candidates)
    ELSE FirstFound(Tail(candidates))

ValOrNone(text, k) == IF k = 0 THEN None ELSE text[k].val

\* Lines 262-271 and 303-315.  The else-branch of lines 268-271 searches
\* the insurer section, which ends before the first "INN", so it finds
\* nothing.  insurer_inn_patterns: INN followed by ":" or "/", then any INN,
\* then a ten-digit number before, then after the insurer label.
InsurerInn(text) ==
    FirstFound(<< InnAfterLabel(text, "insurer"),
                  ValOrNone(text, FirstPos({m \in 1..Len(text) : text[m].kind = "inn" /\ text[m].sep = ":"})),
                  ValOrNone(text, FirstPos({m \in 1..Len(text) : text[m].kind = "inn"})),
                  TenBeforeLabel(text, "insurer"),
                  TenAfterLabel(text, "insurer") >>)

\* Lines 292-301 and 317-327.  insured_inn_patterns: after the insured label
\* an INN followed by ":" or "/", then a ten-digit number after, then before
\* the insured label.
InsuredInn(text) ==
    LET l == FirstPos({m \in 1..Len(text) : IsLabel(text[m], "insured")})
    IN  FirstFound(<< InnAfterLabel(text, "insured"),
                      IF l = 0 THEN None
                      ELSE ValOrNone(text, FirstPos({m \in l + 1..Len(text) : text[m].kind = "inn" /\ text[m].sep = ":"})),
                      TenAfterLabel(text, "insured"),
                      TenBeforeLabel(text, "insured") >>)

\* The digit groups, spaces and commas an item begins and ends with: what
\* the class [\d\s,] can take from it when it follows or precedes a match.
RosxDigits == "22576020266000"

LeadPieces(item) ==
    CASE item.kind = "pdate"  -> <<DateWritten(item.val).day>>
      [] item.kind = "num"    -> <<item.val>>
      [] item.kind = "amount" -> item.written
      [] OTHER                -> <<>>

TrailPieces(item) ==
    CASE item.kind = "rosx"    -> <<RosxDigits>>
      [] item.kind \in {"date", "pdate"} -> <<DateWritten(item.val).year>>
      [] item.kind = "period"  -> IF item.form \in {"plain", "labelled"}
                                  THEN <<DateWritten(item.to).year>> ELSE <<>>
      [] item.kind = "plate"   -> IF item.val = PlateA THEN <<"797">> ELSE <<"77">>
      [] item.kind \in {"inn", "num"} -> <<item.val>>
      [] item.kind = "premium" -> item.written
      [] item.kind = "rosx_written" -> item.digits
      [] OTHER                 -> <<>>

AllDigits(item) == item.kind = "num"

\* What the greedy group ([\d\s,]+...) takes beyond the item of its own
\* amount: the items from k on (forwards), or up to k (backwards), as long
\* as nothing but digits, spaces and commas is met.
RECURSIVE Absorb(_, _)
Absorb(text, k) ==
    IF k > Len(text) THEN <<>>
    ELSE LeadPieces(text[k]) \o (IF AllDigits(text[k]) THEN Absorb(text, k + 1) ELSE <<>>)

RECURSIVE AbsorbBack(_, _)
AbsorbBack(text, k) ==
    IF k < 1 THEN <<>>
    ELSE (IF AllDigits(text[k]) THEN AbsorbBack(text, k - 1) ELSE <<>>) \o TrailPieces(text[k])

\* Lines 341-342: .replace(' ', '').replace(',', '.') and re.sub(r'[^\d.]', '').
AmountStr(pieces) ==
    Concat([k \in 1..Len(SelectSeq(pieces, LAMBDA x : x # " ")) |->
                LET x == SelectSeq(pieces, LAMBDA y : y # " ")[k]
                IN  IF x = "," THEN "." ELSE x])

\* float(amount_str) raises ValueError unless the string is a numeral with
\* at most one point; an empty string is skipped by line 343.
ValidFloat(pieces) ==
    /\ \E k \in 1..Len(pieces) : pieces[k] \notin {" ", ","}
    /\ Cardinality({k \in 1..Len(pieces) : pieces[k] = ","}) <= 1

\* Lines 329-349: premium_patterns in order; a label pattern matches inside
\* a longer label too ("premiya" inside "Strakhovaya premiya").  The value
\* is the numeral float() reads.  The last pattern needs no label: digits
\* followed by "rub".
PremiumLabels == <<{"itogo"}, {"itogo", "strakhovaya"}, {"itogo", "strakhovaya", "premiya"}>>

PremiumMatch(text, n) ==
    IF n <= Len(PremiumLabels)
    THEN LET k == FirstPos({m \in 1..Len(text) : text[m].kind = "premium" /\ text[m].label \in PremiumLabels[n]})
         IN  IF k = 0 THEN <<>> ELSE text[k].written \o Absorb(text, k + 1)
    ELSE LET k == FirstPos({m \in 1..Len(text) : text[m].kind = "amount"})
         IN  IF k = 0 THEN <<>> ELSE AbsorbBack(text, k - 1) \o text[k].written

RECURSIVE PremiumFrom(_, _)
PremiumFrom(text, n) ==
    IF n > Len(PremiumLabels) + 1 THEN None
    ELSE IF ValidFloat(PremiumMatch(text, n)) THEN AmountStr(PremiumMatch(text, n))
    ELSE PremiumFrom(text, n + 1)

Premium(text) == PremiumFrom(text, 1)

\* Lines 235-236, re.search(r'ROSX\d{8,20}', text, re.IGNORECASE): the
\* leftmost prefix, in any case, that 8 or more digits follow immediately;
\* group(0) is the prefix with at most 20 of the digits, and .upper() turns
\* the prefix into "ROSX".
RosxMinDigits == 8
RosxMaxDigits == 20

RosxMatches(item) ==
    \/ item.kind = "rosx"
    \/ item.kind = "rosx_written" /\ Len(item.digits) >= RosxMinDigits

ContractNumber(text) ==
    LET k == FirstPos({m \in 1..Len(text) : RosxMatches(text[m])})
    IN  IF k = 0 THEN None
        ELSE IF text[k].kind = "rosx" THEN text[k].val
        ELSE "ROSX" \o Concat(SubSeq(text[k].digits, 1,
                        IF Len(text[k].digits) < RosxMaxDigits
                        THEN Len(text[k].digits) ELSE RosxMaxDigits))

\* _parse_polis_header; a key that is never set reads as None (.get()).
ParsePolisHeader(text) ==
    LET d == ExtractDatesFromPolis(text)
    IN  [contract_number |-> ContractNumber(text),
         contract_date   |-> d.contract_date,
         period_from     |-> d.period_from,
         period_to       |-> d.period_to,
         insurer         |-> PartyName(text, "insurer"),
         insurer_inn     |-> InsurerInn(text),
         insured         |-> PartyName(text, "insured"),
         insured_inn     |-> InsuredInn(text),
         bonus           |-> Premium(text)]

\* _extract_contract_date_from_svedeniya
ExtractContractDateFromSvedeniya(text) == FirstOf(text, "date")

\* _parse_svedeniya: <<>> for None, else the one-element list of the result.
ParseSvedeniya(text) ==
    LET plate_match == FirstOf(text, "plate")
    IN  IF plate_match = None THEN <<>>
        ELSE << [plate_cyr     |-> plate_match,
                 plate_lat     |-> PlateLat(plate_match),
                 contract_date |-> FirstOf(text, "date")] >>

(***************************************************************************)
(* Registry enrichment (_get_vehicles_info_from_element)                   *)
(***************************************************************************)
\* VehicleInfo(...)
VehicleInfo(plate_cyr, plate_lat, vin, car_info) ==
    [vehicle_plate_cyr |-> plate_cyr, vehicle_plate_lat |-> plate_lat,
     vin |-> vin, car_info |-> car_info]

\* What awaiting element_api_client.get_car_by_plate(plate) can give:
\* an exception, nothing, or the registry's record of that plate, whose VIN
\* may be a placeholder.  car_info is represented by the record's Code.
NoReply == [kind |-> "pending", VIN |-> None, Code |-> None]

Replies(plate) ==
    {[kind |-> "raise", VIN |-> None, Code |-> None],
     [kind |-> "none",  VIN |-> None, Code |-> None],
     [kind |-> "data",  VIN |-> VinOf(plate), Code |-> CodeOf(plate)],
     [kind |-> "data",  VIN |-> "0", Code |-> CodeOf(plate)]}

VinPlaceholders == {"", "0", "Net dannykh"}

\* process_vehicle(data) once its lookup has settled with `reply`:
\* <<>> for None, else the one-element list of the VehicleInfo.
ProcessVehicle_dropUnknown(data, reply) ==
    IF reply.kind = "data"
    THEN << VehicleInfo(data.plate_cyr, data.plate_lat,
                        IF reply.VIN \in VinPlaceholders THEN None ELSE reply.VIN,
                        reply.Code) >>
    ELSE <<>>

ProcessVehicle(data, reply) ==
    IF data.plate_lat = None \/ data.plate_cyr = None THEN <<>>
    ELSE IF reply.kind = "data"
    THEN << VehicleInfo(data.plate_cyr, data.plate_lat,
                        IF reply.VIN \in VinPlaceholders THEN None ELSE reply.VIN,
                        reply.Code) >>
    ELSE << VehicleInfo(data.plate_cyr, data.plate_lat, None, None) >>

\* The branch without a client: one VehicleInfo per entry, no registry data.
VehiclesWithoutClient(vehicles_data) ==
    [k \in 1..Len(vehicles_data) |->
        VehicleInfo(vehicles_data[k].plate_cyr, vehicles_data[k].plate_lat, None, None)]

\* The loop over the list asyncio.gather returns: the tasks' results in the
\* order of the tasks, None results skipped.  `order` is the order in which
\* the tasks completed.
RECURSIVE Flatten(_)
Flatten(ss) == IF ss = <<>> THEN <<>> ELSE Head(ss) \o Flatten(Tail(ss))

GatherResults_asCompleted(results, order) ==
    Flatten([k \in 1..Len(order) |-> results[order[k]]])

GatherResults(results, order) == Flatten(results)

(***************************************************************************)
(* parse_with_segments                                                     *)
(***************************************************************************)
EmptyResult(log) == [contracts |-> <<>>, segments |-> <<>>, log |-> log]

\* The loop of lines 55-59 leaves in polis_segment the last POLIS segment
\* and collects the SVEDENIYA segments; both as (start, end) pairs.
PolisSegments_anyType(segments) ==
    [k \in 1..Len(segments) |-> <<segments[k][1], segments[k][2]>>]

PolisSegments(segments) ==
    LET ps == SelectSeq(segments, LAMBDA s : s[3] = "POLIS")
    IN  [k \in 1..Len(ps) |-> <<ps[k][1], ps[k][2]>>]

SvedeniyaSegments(segments) ==
    LET ss == SelectSeq(segments, LAMBDA s : s[3] = "SVEDENIYA")
    IN  [k \in 1..Len(ss) |-> <<ss[k][1], ss[k][2]>>]

\* The loop of lines 81-85: one entry per disclosure segment with a plate.
VehiclesData(pages, svedeniya_segments) ==
    Flatten([k \in 1..Len(svedeniya_segments) |->
        ParseSvedeniya(JoinPages(pages, svedeniya_segments[k][1], svedeniya_segments[k][2]))])

\* Lines 72-78: the value of self.contract_date_from_svedeniya afterwards.
DateFromFirstSvedeniya(pages, svedeniya_segments, field) ==
    IF svedeniya_segments = <<>> THEN field
    ELSE LET sved_date == ExtractContractDateFromSvedeniya(
                 JoinPages(pages, svedeniya_segments[1][1], svedeniya_segments[1][2]))
         IN  IF sved_date # None THEN sved_date ELSE field

\* OSGOPContract(...): contract_number is a required str, so a None makes
\* pydantic raise a ValidationError; every other header field may be None.
ContractValid(header_data) == header_data.contract_number # None

\* Lines 93-119, run with the value the instance field has at that moment;
\* a ValidationError is caught by the handler of lines 121-123.
Assemble(header_data, field, polis_segment, svedeniya_segments, vehicles) ==
    LET hd == IF header_data.contract_date = None /\ field # None
              THEN [header_data EXCEPT !.contract_date = field]
              ELSE header_data
    IN  IF ~ContractValid(hd) THEN EmptyResult("parse_error")
        ELSE [contracts |-> << [contract_number |-> hd.contract_number,
                                contract_date   |-> hd.contract_date,
                                period_from     |-> hd.period_from,
                                period_to       |-> hd.period_to,
                                insurer         |-> hd.insurer,
                                insurer_inn     |-> hd.insurer_inn,
                                insured         |-> hd.insured,
                                insured_inn     |-> hd.insured_inn,
                                bonus           |-> hd.bonus,
                                vehicles        |-> vehicles] >>,
              segments  |-> <<polis_segment>> \o svedeniya_segments,
              log       |-> "ok"]

NoHeader == ParsePolisHeader(<<>>)

NoFrame == [header_data |-> NoHeader, polis_segment |-> <<0, 0>>,
            svedeniya_segments |-> <<>>, vehicles_data |-> <<>>,
            replies |-> <<>>, results |-> <<>>, order |-> <<>>]

Calls == DOMAIN doc

\* The caller reaches `await parser.parse_with_segments(pdf_bytes)`; the
\* coroutine runs to `await asyncio.to_thread(extract_text_safe, ...)`.
\* process_batch_task awaits each call before the next (sequential);
\* parse_batch_csv starts all of them with asyncio.gather.
Start(c) ==
    /\ pc[c] = "idle"
    /\ mode = "sequential" => \A b \in Calls : b < c => pc[b] = "done"
    /\ pc' = [pc EXCEPT ![c] = "extract"]
    /\ UNCHANGED <<op, arg, out, parser, mode, doc, frame, ret>>

\* The extraction thread ends and the coroutine runs on without
\* suspending, up to its return or to the await of asyncio.gather.
\* An unreadable pdf (no page) makes extract_text_safe raise PDFReadError.
ExtractDone(c) ==
    /\ pc[c] = "extract"
    /\ LET pages    == doc[c]
           segments == DetectSegments(pages)
           polis    == PolisSegments(segments)
           sveds    == SvedeniyaSegments(segments)
       IN
       IF pages = <<>> THEN
            /\ ret' = [ret EXCEPT ![c] = EmptyResult("parse_error")]
            /\ pc' = [pc EXCEPT ![c] = "done"]
            /\ UNCHANGED <<parser, frame>>
       ELSE IF segments = <<>> THEN
            /\ ret' = [ret EXCEPT ![c] = EmptyResult("no_segments")]
            /\ pc' = [pc EXCEPT ![c] = "done"]
            /\ UNCHANGED <<parser, frame>>
       ELSE IF polis = <<>> THEN
            /\ ret' = [ret EXCEPT ![c] = EmptyResult("no_polis")]
            /\ pc' = [pc EXCEPT ![c] = "done"]
            /\ UNCHANGED <<parser, frame>>
       ELSE LET polis_segment == polis[Len(polis)]
                header_data   == ParsePolisHeader(
                                    JoinPages(pages, polis_segment[1], polis_segment[2]))
                field         == DateFromFirstSvedeniya(pages, sveds,
                                    parser.contract_date_from_svedeniya)
                vehicles_data == VehiclesData(pages, sveds)
                fr            == [NoFrame EXCEPT !.header_data = header_data,
                                     !.polis_segment = polis_segment,
                                     !.svedeniya_segments = sveds,
                                     !.vehicles_data = vehicles_data]
            IN
            /\ parser' = [parser EXCEPT !.contract_date_from_svedeniya = field]
            /\ IF vehicles_data = <<>> \/ ~parser.element_api_client THEN
                    /\ frame' = [frame EXCEPT ![c] = fr]
                    /\ ret' = [ret EXCEPT ![c] =
                            Assemble(header_data, field, polis_segment, sveds,
                                     VehiclesWithoutClient(vehicles_data))]
                    /\ pc' = [pc EXCEPT ![c] = "done"]
               ELSE
                    /\ frame' = [frame EXCEPT ![c] =
                            [fr EXCEPT !.replies = [k \in 1..Len(vehicles_data) |-> NoReply],
                                       !.results = [k \in 1..Len(vehicles_data) |-> <<>>]]]
                    /\ pc' = [pc EXCEPT ![c] = "gather"]
                    /\ UNCHANGED ret
    /\ UNCHANGED <<op, arg, out, mode, doc>>

\* One process_vehicle task resumes from its lookup and finishes.
LookupDone(c, k) ==
    /\ pc[c] = "gather"
    /\ k \in 1..Len(frame[c].vehicles_data)
    /\ frame[c].replies[k].kind = "pending"
    /\ \E reply \in Replies(frame[c].vehicles_data[k].plate_cyr) :
         frame' = [frame EXCEPT ![c].replies[k] = reply,
                                ![c].results[k] = ProcessVehicle(frame[c].vehicles_data[k], reply),
                                ![c].order = Append(@, k)]
    /\ UNCHANGED <<op, arg, out, parser, mode, doc, pc, ret>>

\* All tasks are done: asyncio.gather resumes parse_with_segments, which
\* runs to its return.
GatherDone(c) ==
    /\ pc[c] = "gather"
    /\ \A k \in 1..Len(frame[c].vehicles_data) : frame[c].replies[k].kind # "pending"
    /\ ret' = [ret EXCEPT ![c] =
            Assemble(frame[c].header_data, parser.contract_date_from_svedeniya,
                     frame[c].polis_segment, frame[c].svedeniya_segments,
                     GatherResults(frame[c].results, frame[c].order))]
    /\ pc' = [pc EXCEPT ![c] = "done"]
    /\ UNCHANGED <<op, arg, out, parser, mode, doc, frame>>

NextParse ==
    \/ \E c \in Calls : Start(c)
    \/ \E c \in Calls : ExtractDone(c)
    \/ \E c \in Calls : \E k \in 1..Len(frame[c].vehicles_data) : LookupDone(c, k)
    \/ \E c \in Calls : GatherDone(c)

(***************************************************************************)
(* FileSaver.save_all                                                      *)
(***************************************************************************)
\* The pdf files save_all asks for, in the order of pdf_save_tasks: the
\* Policy pages segments[0], then for the vehicle at index i the pages
\* segments[i + 1], with a warning and no file when there is no such entry.
\* Without a contract save_all returns at once.
SaveAllTasks(contracts, segments) ==
    IF contracts = <<>> THEN <<>>
    ELSE LET vehicles == contracts[1].vehicles
         IN  (IF Len(segments) > 0
              THEN <<[kind |-> "polis", vehicle |-> None, segment |-> segments[1]]>>
              ELSE <<>>)
             \o Flatten([k \in 1..Len(vehicles) |->
                    IF k + 1 <= Len(segments)
                    THEN <<[kind |-> "svedeniya", vehicle |-> vehicles[k].vehicle_plate_cyr,
                            segment |-> segments[k + 1]]>>
                    ELSE <<>>])

\* The endpoint passes what parse_with_segments returned to save_all
\* (endpoints/parser.py:56-69).
SaveAll(c) ==
    /\ pc[c] = "done" /\ ~out.done
    /\ out' = [done |-> TRUE, val |-> SaveAllTasks(ret[c].contracts, ret[c].segments)]
    /\ UNCHANGED <<op, arg, parser, mode, doc, pc, frame, ret>>

NextSave ==
    \/ \E c \in Calls : Start(c)
    \/ \E c \in Calls : ExtractDone(c)
    \/ \E c \in Calls : \E k \in 1..Len(frame[c].vehicles_data) : LookupDone(c, k)
    \/ \E c \in Calls : GatherDone(c)
    \/ \E c \in Calls : SaveAll(c)

(***************************************************************************)
(* Characters: plate_normalizer.py and the plate search of _parse_svedeniya *)
(***************************************************************************)
\* A character of a text: a letter of one of the two scripts in one of the
\* two cases, a digit, or a blank.  Cyrillic letters carry transliterated
\* names: the twelve plate letters are A V E K M N O R S T U Kh.
Cyr(ch)      == [script |-> "cyr", ch |-> ch, upper |-> TRUE]
CyrLower(ch) == [script |-> "cyr", ch |-> ch, upper |-> FALSE]
Lat(ch)      == [script |-> "lat", ch |-> ch, upper |-> TRUE]
LatLower(ch) == [script |-> "lat", ch |-> ch, upper |-> FALSE]
Digit(d)     == [script |-> "digit", ch |-> d, upper |-> TRUE]
Blank        == [script |-> "blank", ch |-> " ", upper |-> TRUE]

\* CYR_TO_LAT and LAT_TO_CYR of plate_normalizer.py; each dictionary holds
\* the upper-case and the lower-case pair of every letter.
CYR_TO_LAT ==
    ("A" :> "A") @@ ("V" :> "B") @@ ("E" :> "E") @@ ("K" :> "K") @@ ("M" :> "M")
    @@ ("N" :> "H") @@ ("O" :> "O") @@ ("R" :> "P") @@ ("S" :> "C") @@ ("T" :> "T")
    @@ ("U" :> "Y") @@ ("Kh" :> "X")

LAT_TO_CYR_swapped ==
    ("A" :> "A") @@ ("B" :> "V") @@ ("E" :> "E") @@ ("K" :> "K") @@ ("M" :> "M")
    @@ ("H" :> "Kh") @@ ("O" :> "O") @@ ("P" :> "R") @@ ("C" :> "S") @@ ("T" :> "T")
    @@ ("Y" :> "U") @@ ("X" :> "N")

LAT_TO_CYR ==
    ("A" :> "A") @@ ("B" :> "V") @@ ("E" :> "E") @@ ("K" :> "K") @@ ("M" :> "M")
    @@ ("H" :> "N") @@ ("O" :> "O") @@ ("P" :> "R") @@ ("C" :> "S") @@ ("T" :> "T")
    @@ ("Y" :> "U") @@ ("X" :> "Kh")

\* str.upper() on one character, and on a string.
UpperChar(c) == [c EXCEPT !.upper = TRUE]
Upper(s) == [k \in 1..Len(s) |-> UpperChar(s[k])]

\* re.sub(r'[^\w]', '', s) and re.sub(r'\s+', '', s): of the characters of
\* the model only the blank is neither a letter nor a digit.
IsBlank(c) == c.script = "blank"
StripNonWord(s) == SelectSeq(s, LAMBDA c : c.script \in {"cyr", "lat", "digit"})
StripSpace(s) == SelectSeq(s, LAMBDA c : ~IsBlank(c))

\* One step of the loops of to_cyr_full and to_lat_full: a character that
\* is a key of the dictionary is replaced, any other is kept.
CharToCyr(c) ==
    IF c.script = "lat" /\ c.ch \in DOMAIN LAT_TO_CYR
    THEN [script |-> "cyr", ch |-> LAT_TO_CYR[c.ch], upper |-> c.upper] ELSE c

CharToLat(c) ==
    IF c.script = "cyr" /\ c.ch \in DOMAIN CYR_TO_LAT
    THEN [script |-> "lat", ch |-> CYR_TO_LAT[c.ch], upper |-> c.upper] ELSE c

\* plate_clean.replace('P', 'R'): the Latin capital P becomes the Cyrillic R.
ReplaceLatinP(c) == IF c = Lat("P") THEN Cyr("R") ELSE c

\* to_cyr_full: "" for an empty plate or one without a letter or digit.
ToCyrFull(plate) ==
    LET plate_clean == StripNonWord(Upper(plate))
    IN  [k \in 1..Len(plate_clean) |-> CharToCyr(ReplaceLatinP(plate_clean[k]))]

\* to_lat_full: the mapped characters, upper-cased at the end.
ToLatFull(plate) == Upper([k \in 1..Len(plate) |-> CharToLat(plate[k])])

\* normalize_plate
NormalizePlate(plate_cyr) == ToLatFull(StripNonWord(Upper(plate_cyr)))

\* The character class [AVEKMNORSTUKh] of the plate patterns: the twelve
\* Cyrillic capitals, and \d.
IsPlateLetter(c) == c.script = "cyr" /\ c.upper /\ c.ch \in DOMAIN CYR_TO_LAT
IsDigit(c) == c.script = "digit"

\* Whether the n characters of s from position i on all satisfy the class.
LettersAt(s, i, n) == i + n - 1 <= Len(s) /\ \A k \in i..i + n - 1 : IsPlateLetter(s[k])
DigitsAt(s, i, n) == i + n - 1 <= Len(s) /\ \A k \in i..i + n - 1 : IsDigit(s[k])

\* \s* from position i: the position of the first character that is not
\* white space (Len(s) + 1 at the end of the string).
RECURSIVE SkipBlanks(_, _)
SkipBlanks(s, i) == IF i <= Len(s) /\ IsBlank(s[i]) THEN SkipBlanks(s, i + 1) ELSE i

\* A match of L\s*\d{3}\s*LL\s*\d{2,3} that starts at position i: the
\* position after its last character, 0 when there is no match at i.  The
\* last group is greedy, it takes a third digit when there is one.
EndOfShape1(s, i) ==
    LET d1 == SkipBlanks(s, i + 1)
        l2 == SkipBlanks(s, d1 + 3)
        d2 == SkipBlanks(s, l2 + 2)
    IN  IF LettersAt(s, i, 1) /\ DigitsAt(s, d1, 3) /\ LettersAt(s, l2, 2) /\ DigitsAt(s, d2, 2)
        THEN (IF DigitsAt(s, d2, 3) THEN d2 + 3 ELSE d2 + 2)
        ELSE 0

\* The same for LL\s*\d{5}.
EndOfShape2(s, i) ==
    LET d == SkipBlanks(s, i + 2)
    IN  IF LettersAt(s, i, 2) /\ DigitsAt(s, d, 5) THEN d + 5 ELSE 0

EndOfShape(shape, s, i) == IF shape = 1 THEN EndOfShape1(s, i) ELSE EndOfShape2(s, i)

\* re.search(pattern, s) for one shape: group(0) of the leftmost match,
\* <<>> when the shape is nowhere in s.
SearchShape(shape, s) ==
    LET i == FirstPos({k \in 1..Len(s) : EndOfShape(shape, s, k) # 0})
    IN  IF i = 0 THEN <<>> ELSE SubSeq(s, i, EndOfShape(shape, s, i) - 1)

\* `for pattern in ...: match = re.search(...); if match: break`
SearchShapes(s) == IF SearchShape(1, s) # <<>> THEN SearchShape(1, s) ELSE SearchShape(2, s)

\* text_no_spaces = re.sub(r'\s+', '', text.upper())
TextNoSpaces_keepCase(text) == StripSpace(text)
TextNoSpaces(text) == StripSpace(Upper(text))

\* Lines 439-454: the pass over the text without white space.  In a text
\* without white space the patterns with \s* match what those without match.
StrippedPass(text) == SearchShapes(TextNoSpaces(text))

\* Lines 456-467: the pass over text.upper(), white space removed from the
\* match.
SpacedPass(text) == StripSpace(SearchShapes(Upper(text)))

\* plate_match after line 467; <<>> stands for None (an empty match cannot
\* occur, `if not plate_match` treats both alike).
PlateMatch(text) == IF StrippedPass(text) # <<>> THEN StrippedPass(text) ELSE SpacedPass(text)

\* Lines 469-481 of _parse_svedeniya: None without a plate or when a
\* normalized form is empty, else the two forms of the plate; <<>> for
\* None, else the one-element list of the result.
ParseSvedeniyaPlate(text) ==
    LET plate_match == PlateMatch(text)
        plate_cyr   == ToCyrFull(plate_match)
        plate_lat   == NormalizePlate(plate_cyr)
    IN  IF plate_match = <<>> \/ plate_cyr = <<>> \/ plate_lat = <<>> THEN <<>>
        ELSE << [plate_cyr |-> plate_cyr, plate_lat |-> plate_lat] >>

(***************************************************************************)
(* _normalize_page_text and _restore_spaces                                *)
(***************************************************************************)
\* A raw page text is a sequence of tokens, written one after the other
\* with nothing in between:
\*   a word of Cyrillic letters, all capitals ("upper"), all small ("lower")
\*   or a capital followed by small letters ("title"); the words are those of
\*   the phrases of _restore_spaces and the single letters Zh and O;
\*   a run of n digits;
\*   a white-space character: " ", "nbsp" (\xa0), "tab" or "newline";
\*   a punctuation mark ":" or "/".
TokWord(name, case) == [kind |-> "word",   name |-> name, case |-> case,   n |-> 0]
TokDigits(n)        == [kind |-> "digits", name |-> "",   case |-> "none", n |-> n]
TokSpace(name)      == [kind |-> "space",  name |-> name, case |-> "none", n |-> 0]
TokPunct(name)      == [kind |-> "punct",  name |-> name, case |-> "none", n |-> 0]

Sp == TokSpace(" ")

\* The table `patterns` of _restore_spaces: the tokens of each pattern,
\* compared without regard to case, and its replacement.
RestorePatterns ==
    << [pat  |-> <<TokWord("POLIS", "upper"), TokWord("OBYAZATELNOGO", "upper")>>,
        repl |-> <<TokWord("POLIS", "upper"), Sp, TokWord("OBYAZATELNOGO", "upper")>>],
       [pat  |-> <<TokWord("OBYAZATELNOGO", "upper"), TokWord("STRAKHOVANIYA", "upper")>>,
        repl |-> <<TokWord("OBYAZATELNOGO", "upper"), Sp, TokWord("STRAKHOVANIYA", "upper")>>],
       [pat  |-> <<TokWord("STRAKHOVANIYA", "upper"), TokWord("GRAZHDANSKOY", "upper")>>,
        repl |-> <<TokWord("STRAKHOVANIYA", "upper"), Sp, TokWord("GRAZHDANSKOY", "upper")>>],
       [pat  |-> <<TokWord("GRAZHDANSKOY", "upper"), TokWord("OTVETSTVENNOSTI", "upper")>>,
        repl |-> <<TokWord("GRAZHDANSKOY", "upper"), Sp, TokWord("OTVETSTVENNOSTI", "upper")>>],
       [pat  |-> <<TokWord("OTVETSTVENNOSTI", "upper"), TokWord("PEREVOZCHIKA", "upper")>>,
        repl |-> <<TokWord("OTVETSTVENNOSTI", "upper"), Sp, TokWord("PEREVOZCHIKA", "upper")>>],
       [pat  |-> <<TokWord("SVEDENIYA", "upper"), TokWord("O", "upper"), TokWord("DOGOVORE", "upper")>>,
        repl |-> <<TokWord("SVEDENIYA", "upper"), Sp, TokWord("O", "upper"), Sp,
                   TokWord("DOGOVORE", "upper")>>],
       [pat  |-> <<TokWord("DOGOVORE", "upper"), TokWord("OBYAZATELNOGO", "upper")>>,
        repl |-> <<TokWord("DOGOVORE", "upper"), Sp, TokWord("OBYAZATELNOGO", "upper")>>],
       [pat  |-> <<TokWord("SROK", "title"), TokWord("STRAKHOVANIYA", "lower")>>,
        repl |-> <<TokWord("SROK", "title"), Sp, TokWord("STRAKHOVANIYA", "lower")>>],
       [pat  |-> <<TokWord("DATA", "title"), TokWord("ZAKLYUCHENIYA", "lower")>>,
        repl |-> <<TokWord("DATA", "title"), Sp, TokWord("ZAKLYUCHENIYA", "lower")>>],
       [pat  |-> <<TokWord("STRAKHOVSHCHIK", "title"), TokPunct(":")>>,
        repl |-> <<TokWord("STRAKHOVSHCHIK", "title"), TokPunct(":"), Sp>>],
       [pat  |-> <<TokWord("STRAKHOVATEL", "title"), TokPunct(":")>>,
        repl |-> <<TokWord("STRAKHOVATEL", "title"), TokPunct(":"), Sp>>],
       [pat  |-> <<TokWord("INN", "upper"), TokPunct("/"), TokWord("KPP", "upper"), TokPunct(":")>>,
        repl |-> <<TokWord("INN", "upper"), TokPunct("/"), TokWord("KPP", "upper"), TokPunct(":"), Sp>>] >>

\* Whether the pattern matches the tokens of the text from position i on
\* (flags=re.IGNORECASE: the case of a word does not count).
PatternAt(text, i, pat) ==
    /\ i + Len(pat) - 1 <= Len(text)
    /\ \A k \in 1..Len(pat) :
          text[i + k - 1].kind = pat[k].kind /\ text[i + k - 1].name = pat[k].name

\* re.sub(pattern, replacement, text): every match, from left to right,
\* none overlapping another.
RECURSIVE SubPattern(_, _, _)
SubPattern(text, i, p) ==
    IF i > Len(text) THEN <<>>
    ELSE IF PatternAt(text, i, p.pat) THEN p.repl \o SubPattern(text, i + Len(p.pat), p)
    ELSE <<text[i]>> \o SubPattern(text, i + 1, p)

\* `for pattern, replacement in patterns: text = re.sub(...)`
RECURSIVE SubPatterns(_, _)
SubPatterns(text, k) ==
    IF k > Len(RestorePatterns) THEN text
    ELSE SubPatterns(SubPattern(text, 1, RestorePatterns[k]), k + 1)

\* The first and the last character of a token.
StartsUpper(tok) == tok.kind = "word" /\ tok.case \in {"upper", "title"}
EndsUpper(tok) == tok.kind = "word" /\ tok.case = "upper"
EndsLower(tok) == tok.kind = "word" /\ tok.case \in {"lower", "title"}

\* The number of digits of the run that ends with, or starts with, the
\* digits token at position i.
RECURSIVE RunEndingAt(_, _)
RunEndingAt(text, i) ==
    IF i < 1 \/ text[i].kind # "digits" THEN 0 ELSE text[i].n + RunEndingAt(text, i - 1)

RECURSIVE RunStartingAt(_, _)
RunStartingAt(text, i) ==
    IF i > Len(text) \/ text[i].kind # "digits" THEN 0 ELSE text[i].n + RunStartingAt(text, i + 1)

\* Whether a rule of lines 217-222 puts a blank between the tokens at i and
\* i + 1:  ([a-ya])([A-YA]),  (?<!\d)(\d{3,})([A-YA]),  ([A-YA])(\d{3,})(?!\d).
SplitsAt(rule, text, i) ==
    CASE rule = "lower_upper"  -> EndsLower(text[i]) /\ StartsUpper(text[i + 1])
      [] rule = "digits_upper" -> RunEndingAt(text, i) >= 3 /\ StartsUpper(text[i + 1])
      [] rule = "upper_digits" -> EndsUpper(text[i]) /\ RunStartingAt(text, i + 1) >= 3

Split(rule, text) ==
    Flatten([i \in 1..Len(text) |->
        IF i < Len(text) /\ SplitsAt(rule, text, i) THEN <<text[i], Sp>> ELSE <<text[i]>>])

\* _restore_spaces
RestoreSpaces(text) ==
    Split("upper_digits", Split("digits_upper", Split("lower_upper", SubPatterns(text, 1))))

\* text.replace("\xa0", " ").replace("\t", " "), then re.sub(r'\s+', ' ', text):
\* every run of white space becomes one blank.
CollapseSpaces_keepRuns(text) ==
    [i \in 1..Len(text) |-> IF text[i].kind = "space" THEN Sp ELSE text[i]]

CollapseSpaces(text) ==
    Flatten([i \in 1..Len(text) |->
        IF text[i].kind # "space" THEN <<text[i]>>
        ELSE IF i > 1 /\ text[i - 1].kind = "space" THEN <<>> ELSE <<Sp>>])

\* str.strip() of a text whose white space is single blanks.
Strip(text) ==
    LET a == IF text # <<>> /\ text[1].kind = "space" THEN 2 ELSE 1
        b == IF Len(text) >= a /\ text[Len(text)].kind = "space" THEN Len(text) - 1 ELSE Len(text)
    IN  SubSeq(text, a, b)

\* _normalize_page_text
NormalizePageText(text) ==
    IF text = <<>> THEN <<>> ELSE Strip(CollapseSpaces(RestoreSpaces(text)))

(***************************************************************************)
(* _normalize_date                                                         *)
(***************************************************************************)
\* A month token is a word of Cyrillic letters, as the group ([a-ya]+) of
\* the date patterns captures it; Word gives the word in small letters.
\* Letter names: Ya N V A R F E L M T P I Yu G U S B O K D, Y for the
\* short i and Soft for the soft sign.
LowerChar(c) == [c EXCEPT !.upper = FALSE]
Lower(s) == [k \in 1..Len(s) |-> LowerChar(s[k])]
Word(names) == [k \in 1..Len(names) |-> CyrLower(names[k])]

\* months_full: the genitive names and their numbers.
months_full ==
    << <<Word(<<"Ya", "N", "V", "A", "R", "Ya">>), "01">>,
       <<Word(<<"F", "E", "V", "R", "A", "L", "Ya">>), "02">>,
       <<Word(<<"M", "A", "R", "T", "A">>), "03">>,
       <<Word(<<"A", "P", "R", "E", "L", "Ya">>), "04">>,
       <<Word(<<"M", "A", "Ya">>), "05">>,
       <<Word(<<"I", "Yu", "N", "Ya">>), "06">>,
       <<Word(<<"I", "Yu", "L", "Ya">>), "07">>,
       <<Word(<<"A", "V", "G", "U", "S", "T", "A">>), "08">>,
       <<Word(<<"S", "E", "N", "T", "Ya", "B", "R", "Ya">>), "09">>,
       <<Word(<<"O", "K", "T", "Ya", "B", "R", "Ya">>), "10">>,
       <<Word(<<"N", "O", "Ya", "B", "R", "Ya">>), "11">>,
       <<Word(<<"D", "E", "K", "A", "B", "R", "Ya">>), "12">> >>

\* months_short: the three-letter keys.
months_short ==
    << <<Word(<<"Ya", "N", "V">>), "01">>, <<Word(<<"F", "E", "V">>), "02">>,
       <<Word(<<"M", "A", "R">>), "03">>,  <<Word(<<"A", "P", "R">>), "04">>,
       <<Word(<<"M", "A", "Y">>), "05">>,  <<Word(<<"I", "Yu", "N">>), "06">>,
       <<Word(<<"I", "Yu", "L">>), "07">>, <<Word(<<"A", "V", "G">>), "08">>,
       <<Word(<<"S", "E", "N">>), "09">>,  <<Word(<<"O", "K", "T">>), "10">>,
       <<Word(<<"N", "O", "Ya">>), "11">>, <<Word(<<"D", "E", "K">>), "12">> >>

\* dict.get(key): the value of the key, None when the key is missing.
Get(table, key) ==
    LET k == FirstPos({n \in 1..Len(table) : table[n][1] = key})
    IN  IF k = 0 THEN None ELSE table[k][2]

\* s.startswith(prefix)
StartsWith(s, prefix) == Len(s) >= Len(prefix) /\ SubSeq(s, 1, Len(prefix)) = prefix

\* Lines 612-628: the month number of a token, None for an unknown month.
\* A token that is no key of months_full is looked up by its first three
\* letters, whatever follows them.
MonthNum(month) ==
    LET month_lower == Lower(month)
        full        == Get(months_full, month_lower)
        month_key   == SubSeq(month_lower, 1, 3)
        short       == Get(months_short, month_key)
    IN  IF full # None THEN full
        ELSE IF Len(month_lower) < 3 THEN None
        ELSE IF month_key = Word(<<"M", "A", "Ya">>) /\ StartsWith(month_lower, Word(<<"M", "A", "Ya">>))
             THEN "05"
        ELSE IF month_key = Word(<<"I", "Yu", "N">>) /\ StartsWith(month_lower, Word(<<"I", "Yu", "N", "Ya">>))
             THEN "06"
        ELSE IF month_key = Word(<<"I", "Yu", "L">>) /\ StartsWith(month_lower, Word(<<"I", "Yu", "L", "Ya">>))
             THEN "07"
        ELSE short

\* int(month_num)
IntOfMonth(month_num) == CHOOSE n \in 1..12 : months_full[n][2] = month_num

\* datetime(year, month, day) raises ValueError unless the date exists in
\* the proleptic Gregorian calendar (years 1..9999).
IsLeap_everyFourth(year) == year % 4 = 0
IsLeap(year) == year % 4 = 0 /\ (year % 100 # 0 \/ year % 400 = 0)

DaysInMonth(year, month) ==
    IF month = 2 THEN (IF IsLeap(year) THEN 29 ELSE 28)
    ELSE IF month \in {4, 6, 9, 11} THEN 30 ELSE 31

DatetimeExists(year, month, day) ==
    /\ year >= 1 /\ year <= 9999
    /\ day >= 1 /\ day <= DaysInMonth(year, month)

\* The format specifications :04d and :02d.
ZeroPad(n, width) ==
    (IF width = 4
     THEN (IF n < 10 THEN "000" ELSE IF n < 100 THEN "00" ELSE IF n < 1000 THEN "0" ELSE "")
     ELSE (IF n < 10 THEN "0" ELSE ""))
    \o ToString(n)

MinYear == 2000
MaxYear == 2100

\* _normalize_date.  day and year stand for int(day.strip()) and
\* int(year.strip()): the patterns capture \d{1,2} and \d{4}.
NormalizeDate(day, month, year) ==
    LET month_num == MonthNum(month)
    IN  IF month_num = None THEN None
        ELSE IF day < 1 \/ day > 31 THEN None
        ELSE IF year < MinYear \/ year > MaxYear THEN None
        ELSE IF ~DatetimeExists(year, IntOfMonth(month_num), day) THEN None
        ELSE ZeroPad(year, 4) \o "-" \o month_num \o "-" \o ZeroPad(day, 2)

(***************************************************************************)
(* Specifications                                                          *)
(***************************************************************************)
Page(polis, sved, body) == [polis |-> polis, sved |-> sved, body |-> body]

\* Spec: one parse_with_segments call on a new parser, with or without a
\* registry client.  <<>> stands for a pdf no engine can read.
DocHeadings == {<<"none", "none">>, <<"full", "none">>, <<"none", "full">>, <<"none", "short">>}
DocBodies == {<<>>, <<ItemRosx>>, <<ItemDate("2025-10-29")>>,
              <<ItemPlate(PlateA)>>, <<ItemPlate(PlateB)>>}
DocPages == {Page(h[1], h[2], b) : h \in DocHeadings, b \in DocBodies}
Docs == SeqsUpTo(DocPages, MaxDocPages)

NewParser(client) == [element_api_client |-> client, contract_date_from_svedeniya |-> None]

NoCall == [done |-> FALSE, val |-> <<>>]

InitCalls(docs) ==
    /\ doc = docs
    /\ pc = [c \in DOMAIN docs |-> "idle"]
    /\ frame = [c \in DOMAIN docs |-> NoFrame]
    /\ ret = [c \in DOMAIN docs |-> EmptyResult("none")]

Init ==
    /\ op = "parse_with_segments" /\ arg = <<>> /\ out = NoCall
    /\ \E client \in BOOLEAN : parser = NewParser(client)
    /\ mode = "sequential"
    /\ \E d \in Docs : InitCalls(<<d>>)

Spec == Init /\ [][NextParse]_vars

\* SpecSave: the same call, followed by save_all on what it returned.
SpecSave == Init /\ [][NextSave]_vars

\* SpecBatch: two documents parsed with one parser, one after the other
\* (process_batch_task) or gathered (parse_batch_csv).  Each document is a
\* Policy page followed by one disclosure page; the dates of document c
\* occur in no other document.
DateOfCall(c) == IF c = 1 THEN "2025-01-15" ELSE "2025-02-20"

BatchDocs(c) ==
    {<<Page("full", "none", b1), Page("none", "full", b2)>> :
        b1 \in {<<ItemRosx>>, <<ItemRosx, ItemDate(DateOfCall(c))>>},
        b2 \in {<<>>, <<ItemPlate(PlateA)>>, <<ItemDate(DateOfCall(c))>>,
                <<ItemDate(DateOfCall(c)), ItemPlate(PlateA)>>}}

InitBatch ==
    /\ op = "parse_with_segments" /\ arg = <<>> /\ out = NoCall
    /\ \E client \in BOOLEAN : parser = NewParser(client)
    /\ mode \in {"sequential", "gather"}
    /\ \E d1 \in BatchDocs(1), d2 \in BatchDocs(2) : InitCalls(<<d1, d2>>)

SpecBatch == InitBatch /\ [][NextParse]_vars

\* SpecSeg: _detect_segments on its own, for every list of up to MaxPages
\* page texts over the nine combinations of heading matches.
SegPages == {Page(p, s, <<>>) : p \in HeadingMatch, s \in HeadingMatch}

InitSeg ==
    /\ op = "_detect_segments"
    /\ arg \in SeqsUpTo(SegPages, MaxPages)
    /\ out = NoCall
    /\ parser = NewParser(FALSE) /\ mode = "sequential"
    /\ InitCalls(<<>>)

CallDetectSegments ==
    /\ op = "_detect_segments" /\ ~out.done
    /\ out' = [done |-> TRUE, val |-> DetectSegments(arg)]
    /\ UNCHANGED <<op, arg, parser, mode, doc, pc, frame, ret>>

NextSeg == CallDetectSegments

SpecSeg == InitSeg /\ [][NextSeg]_vars

\* SpecHdr: _parse_polis_header on its own, for every Policy text of up to
\* MaxItems items drawn from one of four families: dates and periods,
\* parties and tax ids, premiums and amounts, contract numbers.
DateItems ==
    {ItemDate("2025-10-29"), ItemPlainDate("2025-11-15"), ItemPlainDate("2025-12-01"),
     ItemPeriod("plain", "2024-10-30", "2025-10-28")}
    \cup {ItemPeriod(form, "2025-10-30", "2026-10-29") : form \in PeriodForms}

PartyItems ==
    {ItemLabel("insurer"), ItemLabel("insured"),
     ItemName(NameRosgosstrakh), ItemName(NameIngosstrakh),
     ItemInn("7707067683", ""), ItemInn("5001234567", ""),
     ItemInn("500100732259", ""), ItemInn("7705042179", ":"),
     ItemNum("7721751172")}

PremiumItems ==
    {ItemPremium("itogo", <<"1", " ", "234", ",", "56">>),
     ItemPremium("strakhovaya", <<"2", " ", "000", ",", "50">>),
     ItemPremium("premiya", <<"500">>),
     ItemAmount(<<"2", " ", "025", " ", "000">>),
     ItemNum("7721751172"), ItemPlainDate("2025-11-15"),
     ItemName(NameRosgosstrakh), ItemLabel("insurer")}

NumberItems ==
    {ItemRosxWritten("ROSX", Digits(0)), ItemRosxWritten("ROSX", Digits(7)),
     ItemRosxWritten("rosx", Digits(8)), ItemRosxWritten("Rosx", Digits(9)),
     ItemRosxWritten("ROSX", Digits(10)), ItemRosxWritten("rosx", Digits(14)),
     ItemRosxWritten("ROSX", Digits(21)), ItemNum("7721751172")}

HdrTexts ==
    SeqsUpTo(DateItems, MaxItems) \cup SeqsUpTo(PartyItems, MaxItems)
        \cup SeqsUpTo(PremiumItems, MaxItems) \cup SeqsUpTo(NumberItems, MaxItems)

InitHdr ==
    /\ op = "_parse_polis_header"
    /\ arg \in HdrTexts
    /\ out = NoCall
    /\ parser = NewParser(FALSE) /\ mode = "sequential"
    /\ InitCalls(<<>>)

CallParsePolisHeader ==
    /\ op = "_parse_polis_header" /\ ~out.done
    /\ out' = [done |-> TRUE, val |-> ParsePolisHeader(arg)]
    /\ UNCHANGED <<op, arg, parser, mode, doc, pc, frame, ret>>

NextHdr == CallParsePolisHeader

SpecHdr == InitHdr /\ [][NextHdr]_vars

\* SpecNorm: to_cyr_full and normalize_plate on every string of up to
\* MaxPlateLen characters: the twelve plate letters in both scripts and both
\* cases, two digits, a blank and a letter of each script outside the plate
\* alphabet.  out.val collects to_cyr_full(p), then normalize_plate(p) and
\* normalize_plate(to_cyr_full(p)).
PlateAlphabet ==
    {Cyr(ch) : ch \in DOMAIN CYR_TO_LAT} \cup {CyrLower(ch) : ch \in DOMAIN CYR_TO_LAT}
    \cup {Lat(ch) : ch \in DOMAIN LAT_TO_CYR} \cup {LatLower(ch) : ch \in DOMAIN LAT_TO_CYR}
    \cup {Digit("2"), Digit("7")}

NormChars == PlateAlphabet \cup {Blank, Lat("D"), CyrLower("Ya")}

InitNorm ==
    /\ op = "plate_normalizer"
    /\ arg \in SeqsUpTo(NormChars, MaxPlateLen)
    /\ out = NoCall
    /\ parser = NewParser(FALSE) /\ mode = "sequential"
    /\ InitCalls(<<>>)

CallToCyrFull ==
    /\ op = "plate_normalizer" /\ ~out.done /\ Len(out.val) = 0
    /\ out' = [done |-> FALSE, val |-> <<ToCyrFull(arg)>>]
    /\ UNCHANGED <<op, arg, parser, mode, doc, pc, frame, ret>>

CallNormalizePlate ==
    /\ op = "plate_normalizer" /\ ~out.done /\ Len(out.val) = 1
    /\ out' = [done |-> TRUE,
               val |-> <<out.val[1], NormalizePlate(arg), NormalizePlate(out.val[1])>>]
    /\ UNCHANGED <<op, arg, parser, mode, doc, pc, frame, ret>>

NextNorm == CallToCyrFull \/ CallNormalizePlate

SpecNorm == InitNorm /\ [][NextNorm]_vars

\* SpecSved: the plate extraction of _parse_svedeniya on every text of up
\* to MaxGroups character groups, each followed by a blank or by nothing: a
\* Cyrillic capital, two Cyrillic small letters, a Latin capital, two Latin
\* capitals, three digits, two digits.
CharGroups ==
    {<<Cyr("A")>>, <<CyrLower("R"), CyrLower("N")>>,
     <<Lat("A")>>, <<Lat("P"), Lat("H")>>,
     <<Digit("2"), Digit("2"), Digit("5")>>, <<Digit("7"), Digit("7")>>}

SpacedGroups == CharGroups \cup {g \o <<Blank>> : g \in CharGroups}

SvedTexts == {Flatten(gs) : gs \in SeqsUpTo(SpacedGroups, MaxGroups)}

InitSved ==
    /\ op = "_parse_svedeniya"
    /\ arg \in SvedTexts
    /\ out = NoCall
    /\ parser = NewParser(FALSE) /\ mode = "sequential"
    /\ InitCalls(<<>>)

CallParseSvedeniya ==
    /\ op = "_parse_svedeniya" /\ ~out.done
    /\ out' = [done |-> TRUE, val |-> ParseSvedeniyaPlate(arg)]
    /\ UNCHANGED <<op, arg, parser, mode, doc, pc, frame, ret>>

NextSved == CallParseSvedeniya

SpecSved == InitSved /\ [][NextSved]_vars

\* SpecDate: _normalize_date on the day numbers -1..MaxDay, on years at
\* and around the limits and leap rules, and on these month tokens: the
\* genitive names, the keys of months_short, a name in capitals, a
\* capitalized name, the nominative "oktyabr'", the words "marker" and
\* "mayak", which only begin like a month, "goda" and the two letters "ma".
GenitiveNames == {months_full[n][1] : n \in 1..12}
Abbreviations == {months_short[n][1] : n \in 1..12}

OtherTokens ==
    {Upper(Word(<<"O", "K", "T", "Ya", "B", "R", "Ya">>)),
     <<Cyr("M")>> \o Word(<<"A", "Ya">>),
     Word(<<"O", "K", "T", "Ya", "B", "R", "Soft">>),
     Word(<<"M", "A", "R", "K", "E", "R">>),
     Word(<<"M", "A", "Ya", "K">>),
     Word(<<"G", "O", "D", "A">>),
     Word(<<"M", "A">>)}

MonthTokens == GenitiveNames \cup Abbreviations \cup OtherTokens

Years == {1999, 2000, 2001, 2024, 2025, 2100, 2101}

InitDate ==
    /\ op = "_normalize_date"
    /\ arg \in [day : -1..MaxDay, month : MonthTokens, year : Years]
    /\ out = NoCall
    /\ parser = NewParser(FALSE) /\ mode = "sequential"
    /\ InitCalls(<<>>)

CallNormalizeDate ==
    /\ op = "_normalize_date" /\ ~out.done
    /\ out' = [done |-> TRUE, val |-> NormalizeDate(arg.day, arg.month, arg.year)]
    /\ UNCHANGED <<op, arg, parser, mode, doc, pc, frame, ret>>

NextDate == CallNormalizeDate

SpecDate == InitDate /\ [][NextDate]_vars

\* SpecText: _normalize_page_text applied to every raw text of up to
\* MaxTokens tokens, and then to its own result.
RawTokens ==
    {TokWord("POLIS", "upper"), TokWord("OBYAZATELNOGO", "lower"),
     TokWord("STRAKHOVANIYA", "upper"), TokWord("SROK", "lower"),
     TokWord("STRAKHOVSHCHIK", "upper"), TokPunct(":"),
     TokWord("Zh", "lower"), TokWord("Zh", "upper"),
     TokDigits(3), TokDigits(2), Sp, TokSpace("nbsp")}

InitText ==
    /\ op = "_normalize_page_text"
    /\ arg \in SeqsUpTo(RawTokens, MaxTokens)
    /\ out = NoCall
    /\ parser = NewParser(FALSE) /\ mode = "sequential"
    /\ InitCalls(<<>>)

CallNormalizePageText ==
    /\ op = "_normalize_page_text" /\ ~out.done /\ Len(out.val) < 2
    /\ LET x == IF out.val = <<>> THEN arg ELSE out.val[1]
       IN  out' = [done |-> Len(out.val) = 1, val |-> Append(out.val, NormalizePageText(x))]
    /\ UNCHANGED <<op, arg, parser, mode, doc, pc, frame, ret>>

NextText == CallNormalizePageText

SpecText == InitText /\ [][NextText]_vars

(***************************************************************************)
(* Properties of _detect_segments (SpecSeg)                                *)
(***************************************************************************)
\* Page numbers (0-based) of `pages` whose text has the given heading match.
PolicyPages(pages) == {i \in 0..Len(pages) - 1 : pages[i + 1].polis = "full"}
DisclosurePages(pages) == {i \in 0..Len(pages) - 1 : pages[i + 1].sved = "full"}
PlainPages(pages) ==
    {i \in 0..Len(pages) - 1 : pages[i + 1].polis = "none" /\ pages[i + 1].sved = "none"}

\* The elements of a finite set of numbers in increasing order.
Sorted(S) ==
    CHOOSE q \in [1..Cardinality(S) -> S] :
        \A a, b \in 1..Cardinality(S) : a < b => q[a] < q[b]

Kinds(segments, kind) == {k \in 1..Len(segments) : segments[k][3] = kind}

\* The case of C1: one Policy heading page p, every disclosure heading page
\* after p, and every other page free of heading patterns.
SinglePolicyThenDisclosures(pages) ==
    /\ Cardinality(PolicyPages(pages)) = 1
    /\ \A p \in PolicyPages(pages) : \A d \in DisclosurePages(pages) : d > p
    /\ (0..Len(pages) - 1) \ (PolicyPages(pages) \cup DisclosurePages(pages))
            \subseteq PlainPages(pages)

\* [(p, d1, POLIS), (d1, d2, SVEDENIYA), ..., (dk, N, SVEDENIYA)]
ChainOfSegments(pages) ==
    LET cuts == Sorted(PolicyPages(pages) \cup DisclosurePages(pages) \cup {Len(pages)})
    IN  [k \in 1..Len(cuts) - 1 |->
            <<cuts[k], cuts[k + 1], IF k = 1 THEN "POLIS" ELSE "SVEDENIYA">>]

\* C1: with exactly one Policy heading page p, the disclosure heading pages
\* d1 < ... < dk all after p and no heading pattern on any other page,
\* _detect_segments returns exactly [(p, d1, POLIS), (d1, d2, SVEDENIYA),
\* ..., (dk, N, SVEDENIYA)], and [(p, N, POLIS)] when k = 0.
C1_SinglePolicyChain ==
    (out.done /\ SinglePolicyThenDisclosures(arg)) => out.val = ChainOfSegments(arg)

C1_Witness ==
    /\ out.done /\ SinglePolicyThenDisclosures(arg)
    /\ Len(arg) = 4 /\ PolicyPages(arg) = {0} /\ DisclosurePages(arg) = {1, 3}
    /\ out.val = << <<0, 1, "POLIS">>, <<1, 3, "SVEDENIYA">>, <<3, 4, "SVEDENIYA">> >>

\* C8: the segments satisfy 0 <= start < endExclusive <= N, are listed in
\* increasing page order and do not overlap: each starts at or after the
\* endExclusive of the one before it.
C8_SegmentsOrderedDisjoint ==
    out.done =>
        /\ \A k \in 1..Len(out.val) :
              0 <= out.val[k][1] /\ out.val[k][1] < out.val[k][2] /\ out.val[k][2] <= Len(arg)
        /\ \A k \in 1..Len(out.val) - 1 :
              /\ out.val[k][2] <= out.val[k + 1][1]
              /\ out.val[k][1] < out.val[k + 1][1]

C8_Witness ==
    /\ out.done /\ Len(out.val) = 3
    /\ out.val[1][2] < out.val[2][1]
    /\ out.val[3][2] = Len(arg)

\* C9: the segments leave no gap: the first one starts at the first page
\* that matches the Policy heading, every later one starts exactly where
\* the one before it ends, and the last one ends at the end of the document.
C9_NoGap ==
    (out.done /\ PolicyPages(arg) # {}) =>
        /\ out.val # <<>>
        /\ \A p \in PolicyPages(arg) : out.val[1][1] <= p
        /\ out.val[1][1] \in PolicyPages(arg)
        /\ \A k \in 1..Len(out.val) - 1 : out.val[k + 1][1] = out.val[k][2]
        /\ out.val[Len(out.val)][2] = Len(arg)

BothHeadingPages(pages) == PolicyPages(pages) \cap DisclosurePages(pages)

\* C12: a page that matches both headings starts a segment, and that
\* segment is tagged POLIS, never SVEDENIYA, whether the page is the first
\* page of the document or the page that closes the segment before it.
C12_PolicyWinsOnBothHeadings ==
    out.done =>
        /\ \A k \in 1..Len(out.val) :
              out.val[k][1] \in BothHeadingPages(arg) => out.val[k][3] = "POLIS"
        /\ \A i \in BothHeadingPages(arg) :
              \E k \in 1..Len(out.val) : out.val[k][1] = i /\ out.val[k][3] = "POLIS"

C12_Witness ==
    /\ out.done /\ Len(arg) = 4
    /\ BothHeadingPages(arg) = {0, 2, 3}
    /\ DisclosurePages(arg) = {0, 1, 2, 3} /\ PolicyPages(arg) = {0, 2, 3}
    /\ out.val = << <<0, 1, "POLIS">>, <<1, 2, "SVEDENIYA">>,
                    <<2, 3, "POLIS">>, <<3, 4, "POLIS">> >>

(***************************************************************************)
(* Properties of parse_with_segments (Spec, SpecBatch)                     *)
(***************************************************************************)
Returned(c) == pc[c] = "done"

HasContract(c) == Returned(c) /\ Len(ret[c].contracts) = 1

\* Whether some page start..end-1 (0-based) holds an item of the kind.
HoldsItem(pages, start, end, kind) ==
    \E i \in start..end - 1 : \E j \in 1..Len(pages[i + 1].body) :
        pages[i + 1].body[j].kind = kind

\* The dates written anywhere in a document.
DatesIn(pages) ==
    UNION {{pages[i].body[j].val : j \in Positions(pages[i].body, "date")} :
            i \in 1..Len(pages)}

\* C2: a document in which no page matches the Policy heading gives the
\* empty result ([], []), whatever else its pages hold.
C2_NoPolicyEmptyResult ==
    \A c \in Calls :
        (Returned(c) /\ PolicyPages(doc[c]) = {}) =>
            ret[c].contracts = <<>> /\ ret[c].segments = <<>>

C2_Witness ==
    \E c \in Calls :
        /\ Returned(c) /\ PolicyPages(doc[c]) = {}
        /\ Len(doc[c]) = 3 /\ DisclosurePages(doc[c]) = {0, 2}
        /\ HoldsItem(doc[c], 0, 1, "rosx") /\ HoldsItem(doc[c], 2, 3, "plate")
        /\ ret[c] = EmptyResult("no_polis")

\* C3: every document with a Policy heading gives a contract, whichever
\* header fields (the contract number among them) could not be extracted;
\* a field that is not found is null in that contract.
C3_ContractWhateverIsMissing ==
    \A c \in Calls :
        (Returned(c) /\ PolicyPages(doc[c]) # {}) =>
            /\ Len(ret[c].contracts) = 1
            /\ ~HoldsItem(doc[c], 0, Len(doc[c]), "rosx") =>
                    ret[c].contracts[1].contract_number = None
            /\ ~HoldsItem(doc[c], 0, Len(doc[c]), "date") =>
                    ret[c].contracts[1].contract_date = None

\* The disclosure segments of a document and those of them without a plate.
DisclosureSegments(pages) ==
    SelectSeq(DetectSegments(pages), LAMBDA s : s[3] = "SVEDENIYA")

Dropped(pages) ==
    {k \in 1..Len(DisclosureSegments(pages)) :
        ~HoldsItem(pages, DisclosureSegments(pages)[k][1], DisclosureSegments(pages)[k][2], "plate")}

\* C4: in the returned contract the number of vehicles is the number of
\* disclosure segments minus the number of those without a plate, with or
\* without a registry client.
C4_VehicleCount ==
    \A c \in Calls :
        HasContract(c) =>
            Len(ret[c].contracts[1].vehicles)
                = Len(DisclosureSegments(doc[c])) - Cardinality(Dropped(doc[c]))

C4_Witness ==
    \E c \in Calls :
        /\ HasContract(c) /\ parser.element_api_client
        /\ Len(DisclosureSegments(doc[c])) = 2 /\ Dropped(doc[c]) = {1}
        /\ Len(ret[c].contracts[1].vehicles) = 1
        /\ frame[c].replies[1].kind = "none"

\* C5: a parser that parsed another document before returns for this one
\* what a new parser returns; its contract date is none of the dates that
\* occur only in the other document.
C5_NoCarryOver ==
    \A c \in Calls :
        (mode = "sequential" /\ HasContract(c)) =>
            ret[c].contracts[1].contract_date \in DatesIn(doc[c]) \cup {None}

\* C6: when two calls on one parser interleave at their awaits, the
\* contract date of each comes from the pages of its own document.
C6_NoCrossTalk ==
    \A c \in Calls :
        (/\ mode = "gather" /\ HasContract(c)
         /\ \E b \in Calls \ {c} : pc[b] = "gather") =>
            ret[c].contracts[1].contract_date \in DatesIn(doc[c]) \cup {None}

\* The plates of the disclosure segments that have one, in segment order.
ExtractedPlates(pages) ==
    LET ss == DisclosureSegments(pages)
        withPlate == SelectSeq([k \in 1..Len(ss) |-> k],
                        LAMBDA k : HoldsItem(pages, ss[k][1], ss[k][2], "plate"))
    IN  [n \in 1..Len(withPlate) |->
            FirstOf(JoinPages(pages, ss[withPlate[n]][1], ss[withPlate[n]][2]), "plate")]

\* C7: with a registry client, whatever each lookup gives and in whatever
\* order the lookups complete, every extracted plate has one vehicle record,
\* in disclosure-segment order, whose vin and car_info come from the lookup
\* for its own plate and are null when that lookup gave nothing or failed.
C7_OwnLookupPerVehicle ==
    \A c \in Calls :
        (HasContract(c) /\ parser.element_api_client) =>
            LET vehicles == ret[c].contracts[1].vehicles
                plates   == ExtractedPlates(doc[c])
            IN  /\ Len(vehicles) = Len(plates)
                /\ \A k \in 1..Len(vehicles) :
                    /\ vehicles[k].vehicle_plate_cyr = plates[k]
                    /\ vehicles[k].vehicle_plate_lat = PlateLat(plates[k])
                    /\ frame[c].replies[k].kind \in {"raise", "none"} =>
                            vehicles[k].vin = None /\ vehicles[k].car_info = None
                    /\ frame[c].replies[k].kind = "data" =>
                            /\ vehicles[k].car_info = CodeOf(plates[k])
                            /\ vehicles[k].vin =
                                 IF frame[c].replies[k].VIN = VinOf(plates[k])
                                 THEN VinOf(plates[k]) ELSE None

C7_Witness ==
    \E c \in Calls :
        /\ HasContract(c) /\ parser.element_api_client
        /\ frame[c].order = <<2, 1>>
        /\ frame[c].replies[1].kind = "raise"
        /\ frame[c].replies[2].kind = "data"
        /\ ret[c].contracts[1].vehicles
             = << VehicleInfo(PlateA, "A225PH797", None, None),
                  VehicleInfo(PlateB, "B777OP77", "XTA00000000000777", "code-777") >>

\* The plates written on the pages start..end-1 (0-based).
PlatesIn(pages, start, end) ==
    UNION {{pages[i + 1].body[j].val : j \in Positions(pages[i + 1].body, "plate")} :
            i \in start..end - 1}

\* C13: a document with a Policy heading and no disclosure heading anywhere
\* has its plates extracted from the text of the combined Policy segment
\* (first Policy heading to the end of the document): when that text holds
\* a plate, the vehicles of the returned contract are not empty and hold a
\* record for each plate found there.
C13_FallbackPlateScan ==
    \A c \in Calls :
        (/\ HasContract(c) /\ PolicyPages(doc[c]) # {}
         /\ \A i \in 1..Len(doc[c]) : doc[c][i].sved = "none") =>
            LET first == CHOOSE p \in PolicyPages(doc[c]) : \A q \in PolicyPages(doc[c]) : p <= q
                found == PlatesIn(doc[c], first, Len(doc[c]))
                vehicles == ret[c].contracts[1].vehicles
            IN  found # {} =>
                    /\ vehicles # <<>>
                    /\ \A plate \in found :
                          \E k \in 1..Len(vehicles) : vehicles[k].vehicle_plate_cyr = plate

\* The segment whose text the header is extracted from, and the dates that
\* the disclosure segments state, in page order.
PolisSegmentOf(pages) ==
    LET ps == PolisSegments(DetectSegments(pages)) IN ps[Len(ps)]

StatedDates(pages) ==
    LET ss == DisclosureSegments(pages)
        withDate == SelectSeq([k \in 1..Len(ss) |-> k],
                        LAMBDA k : HoldsItem(pages, ss[k][1], ss[k][2], "date"))
    IN  [n \in 1..Len(withDate) |->
            FirstOf(JoinPages(pages, ss[withDate[n]][1], ss[withDate[n]][2]), "date")]

\* C14: when the header leaves the contract date null and some disclosure
\* segment states a conclusion date, the contract date of the returned
\* contract is the date of the first disclosure segment, in page order,
\* that states one, also when it is not the first disclosure segment.
C14_FirstStatedDisclosureDate ==
    \A c \in Calls :
        (/\ HasContract(c)
         /\ ~HoldsItem(doc[c], PolisSegmentOf(doc[c])[1], PolisSegmentOf(doc[c])[2], "date")
         /\ StatedDates(doc[c]) # <<>>) =>
            ret[c].contracts[1].contract_date = StatedDates(doc[c])[1]

(***************************************************************************)
(* Properties of _parse_polis_header (SpecHdr)                             *)
(***************************************************************************)
KindPositions(text, kinds) == {k \in 1..Len(text) : text[k].kind \in kinds}

\* The first date written in the text, None when it holds no date.
FirstWrittenDate(text) ==
    LET k == FirstPos({m \in 1..Len(text) : text[m].kind \in {"date", "pdate", "period"}})
    IN  IF k = 0 THEN None ELSE text[k].val

\* C15: contract_date is the date of the labelled phrase "Data
\* zaklyucheniya dogovora: D month Y" whenever the text holds one, also when
\* other dates stand before it; only without a labelled date is it the
\* first date of the generic scan.
C15_LabelledDateFirst ==
    out.done =>
        LET k == FirstPos({m \in 1..Len(arg) : arg[m].kind = "date"})
        IN  /\ k # 0 => out.val.contract_date = arg[k].val
            /\ k = 0 => out.val.contract_date = FirstWrittenDate(arg)

C15_Witness ==
    /\ out.done /\ Len(arg) = 3
    /\ arg[1].kind = "period" /\ arg[2].kind = "pdate" /\ arg[3].kind = "date"
    /\ out.val.contract_date = "2025-10-29"
    /\ out.val.period_from = "2025-10-30"

\* C16: when the text holds an explicit from-to phrase "s D1 month1 Y1 ...
\* po D2 month2 Y2", period_from and period_to are the first and the second
\* date of such a phrase, whatever other dates the text holds.
C16_ExplicitPeriodWins ==
    (out.done /\ KindPositions(arg, {"period"}) # {}) =>
        \E k \in KindPositions(arg, {"period"}) :
            out.val.period_from = arg[k].val /\ out.val.period_to = arg[k].to

\* C17: without a from-to phrase, period_from and period_to are the second
\* and third date of the generic scan, the entry used for contract_date
\* being skipped: the first two entries of the scan other than that one,
\* so that period_from is not the date used for contract_date.  Stated for
\* texts that hold at least three dates, all different.
C17_PeriodFromSecondAndThird ==
    (/\ out.done /\ KindPositions(arg, {"period"}) = {}
     /\ Len(AllDates(arg)) >= 3
     /\ Cardinality({AllDates(arg)[n] : n \in 1..Len(AllDates(arg))}) = Len(AllDates(arg))) =>
        LET scan == AllDates(arg)
            k    == FirstPos({m \in 1..Len(arg) : arg[m].kind = "date"})
            used == IF k = 0 THEN 1
                    ELSE Cardinality({j \in 1..k : arg[j].kind \in {"date", "pdate"}})
            rest == [n \in 1..Len(scan) - 1 |-> IF n < used THEN scan[n] ELSE scan[n + 1]]
        IN  /\ out.val.period_from = rest[1] /\ out.val.period_to = rest[2]
            /\ out.val.period_from # out.val.contract_date

\* The INN item that follows a role label as its own: the first INN item
\* after the label with nothing but the party's name in between; 0 if none.
OwnInn(text, role) ==
    LET l == FirstPos({m \in 1..Len(text) : IsLabel(text[m], role)})
        k == FirstPos({m \in l + 1..Len(text) : text[m].kind = "inn"})
    IN  IF l # 0 /\ k # 0 /\ \A j \in l + 1..k - 1 : text[j].kind = "name"
        THEN k ELSE 0

\* C18: when the text holds both role labels, each followed by its own
\* "INN <digits>", insurer_inn is the number after the insurer label and
\* insured_inn the number after the insured label, whatever letters the
\* party names hold and whichever party comes first.
C18_OwnInnPerRole ==
    (/\ out.done
     /\ Cardinality({k \in 1..Len(arg) : IsLabel(arg[k], "insurer")}) = 1
     /\ Cardinality({k \in 1..Len(arg) : IsLabel(arg[k], "insured")}) = 1
     /\ OwnInn(arg, "insurer") # 0 /\ OwnInn(arg, "insured") # 0) =>
        /\ out.val.insurer_inn = arg[OwnInn(arg, "insurer")].val
        /\ out.val.insured_inn = arg[OwnInn(arg, "insured")].val

\* C19: when the text holds two different tax-id-shaped numbers, with or
\* without the word INN, and no role label, the first in text order is
\* insurer_inn and the second insured_inn.
C19_PositionalFallback ==
    (/\ out.done
     /\ KindPositions(arg, {"label"}) = {}
     /\ Cardinality(KindPositions(arg, {"inn", "num"})) = 2
     /\ Cardinality({arg[k].val : k \in KindPositions(arg, {"inn", "num"})}) = 2) =>
        LET ids == KindPositions(arg, {"inn", "num"})
            a   == CHOOSE k \in ids : \A j \in ids : k <= j
            b   == CHOOSE k \in ids : \A j \in ids : k >= j
        IN  out.val.insurer_inn = arg[a].val /\ out.val.insured_inn = arg[b].val

\* C20: when the text holds none of the premium labels, bonus is null, also
\* when it holds other amounts such as a number followed by "rub".
C20_NoUnlabelledPremium ==
    (out.done /\ KindPositions(arg, {"premium"}) = {}) => out.val.bonus = None

\* The premium item that the rule order of premium_patterns selects: the
\* first item with the label "Itogo strakhovaya premiya" if there is one,
\* else the first with "Strakhovaya premiya", else the first with
\* "Premiya"; 0 when the text holds no premium label.
SelectedPremium(text) ==
    LET p1 == FirstPos({m \in 1..Len(text) : text[m].kind = "premium" /\ text[m].label = "itogo"})
        p2 == FirstPos({m \in 1..Len(text) : text[m].kind = "premium" /\ text[m].label = "strakhovaya"})
        p3 == FirstPos({m \in 1..Len(text) : text[m].kind = "premium" /\ text[m].label = "premiya"})
    IN  IF p1 # 0 THEN p1 ELSE IF p2 # 0 THEN p2 ELSE p3

\* C21: a premium written after a premium label as digit groups separated
\* by spaces with a decimal comma is parsed to the number read from exactly
\* those groups (spaces removed, the comma as the decimal point), whatever
\* follows it in the text; with several labels the one of highest priority
\* in the rule order supplies the value.
C21_PremiumAsWritten ==
    (out.done /\ SelectedPremium(arg) # 0) =>
        out.val.bonus = AmountStr(arg[SelectedPremium(arg)].written)

\* The items of a text that the claim counts as a contract number: the
\* prefix immediately followed by at least ten digits.
TenDigitRosx(text) ==
    {m \in 1..Len(text) : text[m].kind = "rosx_written" /\ Len(text[m].digits) >= 10}

\* C22: contract_number is not null exactly when the text holds the prefix,
\* in any letter case, immediately followed by at least ten digits; a prefix
\* followed by fewer digits gives none.  The value is "ROSX" followed by the
\* digits, at most 20 of them.
C22_TenDigitsOrNone ==
    (out.done /\ KindPositions(arg, {"rosx"}) = {}) =>
        LET k == FirstPos(TenDigitRosx(arg))
        IN  /\ out.val.contract_number # None <=> k # 0
            /\ k # 0 => out.val.contract_number =
                  "ROSX" \o Concat(SubSeq(arg[k].digits, 1,
                        IF Len(arg[k].digits) < 20 THEN Len(arg[k].digits) ELSE 20))

(***************************************************************************)
(* Properties of the plate extraction and the plate normalizer             *)
(* (SpecSved, SpecNorm)                                                    *)
(***************************************************************************)
\* Whether a text is one plate of the shape "letter, 3 digits, 2 letters,
\* 2 or 3 digits" written with Latin letters of the plate alphabet, in
\* either case, with or without blanks between its groups.
IsLatinPlateLetter(c) == c.script = "lat" /\ c.ch \in DOMAIN LAT_TO_CYR

LatinPlateText(text) ==
    LET s  == text
        d1 == SkipBlanks(s, 2)
        l2 == SkipBlanks(s, d1 + 3)
        d2 == SkipBlanks(s, l2 + 2)
    IN  /\ Len(s) >= 1 /\ IsLatinPlateLetter(s[1])
        /\ DigitsAt(s, d1, 3)
        /\ l2 + 1 <= Len(s) /\ IsLatinPlateLetter(s[l2]) /\ IsLatinPlateLetter(s[l2 + 1])
        /\ DigitsAt(s, d2, 2)
        /\ Len(s) = (IF DigitsAt(s, d2, 3) THEN d2 + 2 ELSE d2 + 1)

\* C23: a plate written with the Latin look-alike letters, with or without
\* blanks between its groups, is matched by the vehicle extractor and gives
\* the canonical Latin plate without blanks ("A 225 PH 797" gives
\* "A225PH797"), as the same plate in Cyrillic letters does.
C23_LatinPlateMatched ==
    (out.done /\ LatinPlateText(arg)) =>
        /\ out.val # <<>>
        /\ out.val[1].plate_lat = Upper(StripNonWord(arg))

\* C24: for every string p made only of the twelve plate letters, in either
\* script and either case, and digits,
\* normalize_plate(to_cyr_full(p)) = normalize_plate(p).
C24_CyrillicFirstSameLatin ==
    (out.done /\ \A k \in 1..Len(arg) : arg[k] \in PlateAlphabet) =>
        out.val[3] = out.val[2]

C24_Witness ==
    /\ out.done
    /\ arg = <<LatLower("H"), Cyr("R")>>
    /\ out.val = << <<Cyr("N"), Cyr("R")>>, <<Lat("H"), Lat("P")>>, <<Lat("H"), Lat("P")>> >>

\* C30: the retry of _parse_svedeniya on the text with its white space
\* never changes the outcome: when the pass over the text without white
\* space finds neither plate shape, the pass over the spaced text finds
\* none either, so the result is what the first pass alone gives (the shape
\* "letter, 3 digits, 2 letters, 2-3 digits" tried over the whole text
\* before the shape "2 letters, 5 digits").
C30_RetryNeverMatters ==
    out.done =>
        /\ StrippedPass(arg) = <<>> => SpacedPass(arg) = <<>>
        /\ StrippedPass(arg) = <<>> => out.val = <<>>
        /\ StrippedPass(arg) # <<>> =>
              /\ out.val # <<>>
              /\ out.val[1].plate_cyr = StrippedPass(arg)
              /\ out.val[1].plate_cyr =
                    (IF SearchShape(1, TextNoSpaces(arg)) # <<>>
                     THEN SearchShape(1, TextNoSpaces(arg))
                     ELSE SearchShape(2, TextNoSpaces(arg)))

\* The retry ran on a text with blanks between plate-like groups and found
\* nothing, the first pass having found nothing.
C30_Witness ==
    /\ out.done
    /\ arg = <<Cyr("A"), Blank, Digit("2"), Digit("2"), Digit("5"), Blank,
               Lat("P"), Lat("H"), Blank, Digit("7"), Digit("7")>>
    /\ StrippedPass(arg) = <<>> /\ out.val = <<>>

(***************************************************************************)
(* Properties of _normalize_date (SpecDate)                                *)
(***************************************************************************)
\* The calendar as the claims use it: between 2000 and 2100 the leap years
\* are the multiples of four other than 2100.
LastDay(year, month) ==
    CASE month \in {1, 3, 5, 7, 8, 10, 12} -> 31
      [] month \in {4, 6, 9, 11} -> 30
      [] month = 2 -> IF year % 4 = 0 /\ year # 2100 THEN 29 ELSE 28

\* YYYY-MM-DD for a year of four digits.
TwoDigits(n) == IF n < 10 THEN "0" \o ToString(n) ELSE ToString(n)
IsoDate(year, month, day) == ToString(year) \o "-" \o TwoDigits(month) \o "-" \o TwoDigits(day)

\* C25: _normalize_date returns null or the string YYYY-MM-DD of an
\* existing calendar date of its day and year, the year in 2000..2100; it
\* returns null when the day is outside 1..31, the year outside 2000..2100,
\* or the day does not exist in the month (30 February, 29 February of a
\* year that is no leap year, 31 April).
C25_NullOrExistingIsoDate ==
    out.done =>
        /\ out.val # None =>
              /\ arg.year \in 2000..2100
              /\ \E m \in 1..12 :
                    /\ arg.day \in 1..LastDay(arg.year, m)
                    /\ out.val = IsoDate(arg.year, m, arg.day)
        /\ (arg.day < 1 \/ arg.day > 31) => out.val = None
        /\ (arg.year < 2000 \/ arg.year > 2100) => out.val = None
        /\ (arg.month = months_full[2][1] /\ arg.day >= 30) => out.val = None
        /\ (arg.month = months_full[2][1] /\ arg.day = 29 /\ arg.year \in {2001, 2025, 2100})
              => out.val = None
        /\ (arg.month = months_full[4][1] /\ arg.day = 31) => out.val = None
        /\ (arg.month \in GenitiveNames /\ arg.year \in 2000..2100
            /\ \E m \in 1..12 : arg.month = months_full[m][1] /\ arg.day \in 1..LastDay(arg.year, m))
              => out.val # None

C25_Witness ==
    /\ out.done
    /\ arg.month = months_full[2][1] /\ arg.day = 29 /\ arg.year = 2024
    /\ out.val = "2024-02-29"

\* C26: _normalize_date returns null for every month token that, compared
\* without regard to case, is neither one of the 12 genitive names nor one
\* of the 12 three-letter abbreviations, such as a word that only begins
\* with the three letters of an abbreviation.
C26_UnknownMonthNull ==
    (out.done /\ Lower(arg.month) \notin GenitiveNames \cup Abbreviations) => out.val = None

(***************************************************************************)
(* Properties of _normalize_page_text (SpecText)                           *)
(***************************************************************************)
\* C27: text normalization is idempotent,
\* _normalize_page_text(_normalize_page_text(x)) = _normalize_page_text(x),
\* also for texts with concatenated domain phrases, with a small letter
\* followed by a capital and with digits next to letters.
C27_NormalizeIdempotent ==
    out.done => out.val[2] = out.val[1]

\* "polisobyazatelnogo123Zh:" with white space around it: a phrase is
\* restored and blanks are put at a small-capital and a digit-letter
\* boundary.
C27_Witness ==
    /\ out.done
    /\ arg = <<TokWord("Zh", "lower"), TokWord("POLIS", "upper"),
               TokWord("OBYAZATELNOGO", "lower"), TokDigits(3)>>
    /\ out.val[1] = <<TokWord("Zh", "lower"), Sp, TokWord("POLIS", "upper"), Sp,
                      TokWord("OBYAZATELNOGO", "upper"), Sp, TokDigits(3)>>
    /\ out.val[2] = out.val[1]

(***************************************************************************)
(* Properties of the Policy segment and of the saved pages (Spec)          *)
(***************************************************************************)
\* The Policy segment opened by the first page that matches the Policy
\* heading: from that page up to the next page with a heading match of
\* either kind, or to the end of the document.
FirstPolicySegment(pages) ==
    LET p     == CHOOSE i \in PolicyPages(pages) : \A j \in PolicyPages(pages) : i <= j
        later == {j \in p + 1..Len(pages) - 1 : ReNextHeading(pages[j + 1])} \cup {Len(pages)}
    IN  <<p, CHOOSE e \in later : \A j \in later : e <= j>>

\* C28: when more than one page matches the Policy heading, the header
\* fields of the returned contract come from the Policy segment opened by
\* the first such page, and that segment is the policy range returned to
\* the caller.
C28_HeaderFromFirstPolicySegment ==
    \A c \in Calls :
        (HasContract(c) /\ Cardinality(PolicyPages(doc[c])) > 1) =>
            LET first == FirstPolicySegment(doc[c])
            IN  /\ ret[c].segments[1] = first
                /\ ret[c].contracts[1].contract_number =
                       ParsePolisHeader(JoinPages(doc[c], first[1], first[2])).contract_number

\* The disclosure segments from which a plate was extracted, in page
\* order: the k-th vehicle of the contract comes from the k-th of them.
PlateSegments(pages) ==
    LET ss == SelectSeq(DisclosureSegments(pages),
                  LAMBDA s : ParseSvedeniya(JoinPages(pages, s[1], s[2])) # <<>>)
    IN  [k \in 1..Len(ss) |-> <<ss[k][1], ss[k][2]>>]

\* C29: for the contract and the segment list that parse_with_segments
\* returned, save_all stores for each vehicle the pages of the disclosure
\* segment its plate was extracted from, also when an earlier disclosure
\* segment gave no plate and was dropped from the vehicles.
C29_SavedPagesOfOwnSegment ==
    \A c \in Calls :
        (HasContract(c) /\ out.done) =>
            LET vehicles == ret[c].contracts[1].vehicles
                saved    == SelectSeq(out.val, LAMBDA t : t.kind = "svedeniya")
            IN  /\ Len(saved) = Len(vehicles)
                /\ \A k \in 1..Len(vehicles) :
                      /\ saved[k].vehicle = vehicles[k].vehicle_plate_cyr
                      /\ saved[k].segment = PlateSegments(doc[c])[k]

====
